---- MODULE Spec2Model ----
(***************************************************************************)
(* A model of the quantitative engine of the DCA decision-support app      *)
(* (src/streamlit_app_simulator.py): the polynomial baseline/band fitter,  *)
(* the zone-crossing detector, the day-by-day DCA backtest, the intensity  *)
(* optimizer and the Streamlit caches the page wraps around them.          *)
(*                                                                         *)
(* Arithmetic.  The program computes in IEEE doubles; the model computes   *)
(* in exact integer arithmetic.  The fitter's values are rationals kept    *)
(* as integer numerators over a stated unit; the only rounding is the      *)
(* square root of the residual variance, taken as an integer square root   *)
(* in a unit fine enough that a nonzero variance never rounds to zero.     *)
(* The backtest keeps money and shares in fixed point (FixedPoint units    *)
(* per dollar and per share) and divides rounding down.                    *)
(***************************************************************************)
EXTENDS Integers, Sequences, FiniteSets, TLC

VARIABLES
    fitter,     \* one call of calculate_regression_curve: its arguments, its position, its result
    sim,        \* one call of run_dca_simulation: its arguments, locals and position
    opt,        \* one call of optimize_degree: its arguments, locals and position
    page        \* the page's caches (st.cache_data) and what the last page run used

vars == <<fitter, sim, opt, page>>

(***************************************************************************)
(* Bounds of the model.                                                    *)
(***************************************************************************)
\* longest price series handed to the fitter
MaxLen == 4

\* closing prices handed to the fitter
ClosePrices == {1, 2, 3}

(***************************************************************************)
(* Program constants.                                                      *)
(***************************************************************************)
\* st.slider("Degree", min_value=1, max_value=100)
MinDegree == 1
MaxDegree == 100
\* num_bands=4, the default every caller uses
NumBands == 4

(***************************************************************************)
(* Integer helpers.                                                        *)
(***************************************************************************)
Abs(a) == IF a < 0 THEN -a ELSE a

Min(a, b) == IF a < b THEN a ELSE b

Max(a, b) == IF a > b THEN a ELSE b

RECURSIVE GCD(_, _)
GCD(a, b) == IF b = 0 THEN Abs(a) ELSE GCD(b, a % Abs(b))

LCM(a, b) == (a \div GCD(a, b)) * b

RECURSIVE Pow(_, _)
Pow(b, k) == IF k = 0 THEN 1 ELSE b * Pow(b, k - 1)

RECURSIVE SumSeq(_, _)
SumSeq(s, k) == IF k = 0 THEN 0 ELSE s[k] + SumSeq(s, k - 1)

\* sum of a sequence of integers
Sum(s) == SumSeq(s, Len(s))

Dot(u, v) == Sum([t \in 1..Len(u) |-> u[t] * v[t]])

RECURSIVE GcdSeq(_, _)
GcdSeq(s, k) == IF k = 0 THEN 0 ELSE GCD(s[k], GcdSeq(s, k - 1))

\* largest r with r*r <= v, by bisection on lo <= r < hi
RECURSIVE ISqrtIn(_, _, _)
ISqrtIn(v, lo, hi) ==
    IF hi - lo <= 1 THEN lo
    ELSE LET mid == (lo + hi) \div 2
         IN  IF mid * mid <= v THEN ISqrtIn(v, mid, hi) ELSE ISqrtIn(v, lo, mid)

ISqrt(v) == ISqrtIn(v, 0, Min(v, 46340) + 1)

(***************************************************************************)
(* CurveFitter: calculate_regression_curve_original / _enhanced.           *)
(***************************************************************************)
Variants == {"original", "enhanced"}

\* x_transformed, as integer numerators.  The original method divides
\* x = 0..n-1 by max(x) = n-1; the enhanced method centres on the mean
\* (n-1)/2 and divides by the standard deviation.  Both divisors are one
\* positive number for the whole series, so column k of the design matrix is
\* the k-th power of these numerators times one positive constant.
XTransformed(variant, n) ==
    [t \in 1..n |-> IF variant = "original" THEN t - 1 ELSE 2 * (t - 1) - (n - 1)]

\* column k of the Vandermonde matrix np.polyfit builds, up to its constant
Column(xn, k) == [t \in 1..Len(xn) |-> Pow(xn[t], k)]

\* an integer vector divided by the gcd of its entries
Primitive(r) ==
    LET g == GcdSeq(r, Len(r))
    IN  IF g = 0 THEN r ELSE [t \in 1..Len(r) |-> r[t] \div g]

\* r made orthogonal to basis[j..]: the fraction-free Gram-Schmidt step
RECURSIVE OrthoAgainst(_, _, _)
OrthoAgainst(r, basis, j) ==
    IF j > Len(basis) THEN r
    ELSE LET q == basis[j]
             nq == Dot(q, q)
             c == Dot(r, q)
         IN  OrthoAgainst(Primitive([t \in 1..Len(r) |-> nq * r[t] - c * q[t]]), basis, j + 1)

\* an orthogonal integer basis of the column space of degree <= d
RECURSIVE OrthoBasis(_, _)
OrthoBasis(xn, d) ==
    IF d = 0 THEN << Column(xn, 0) >>
    ELSE LET b == OrthoBasis(xn, d - 1)
         IN  Append(b, OrthoAgainst(Column(xn, d), b, 1))

RECURSIVE LcmNorms(_, _)
LcmNorms(basis, k) ==
    IF k = 0 THEN 1 ELSE LCM(Dot(basis[k], basis[k]), LcmNorms(basis, k - 1))

\* polynomial(x_transformed) for coefficients = np.polyfit(x_transformed, y, deg):
\* the least-squares fitted values, i.e. the orthogonal projection of y on
\* the column space, as numerators num[t] over the denominator den
PolyfitValues(xn, y, deg) ==
    LET basis == OrthoBasis(xn, deg)
        den == LcmNorms(basis, Len(basis))
        term(k, t) == Dot(y, basis[k]) * (den \div Dot(basis[k], basis[k])) * basis[k][t]
    IN  [num |-> [t \in 1..Len(y) |-> Sum([k \in 1..Len(basis) |-> term(k, t)])],
         den |-> den]

\* a vector of fractions num[t]/den in lowest terms
Reduced(num, den) ==
    LET g == GCD(den, GcdSeq(num, Len(num)))
    IN  [num |-> [t \in 1..Len(num) |-> num[t] \div g], den |-> den \div g]

\* "if degree > len(y_numeric) - 1: degree = len(y_numeric) - 1"
ClampBroken(degree, n) == IF degree > n - 1 THEN n - 2 ELSE degree

ClampDegree(degree, n) == IF degree > n - 1 THEN n - 1 ELSE degree

\* np.polyfit reports a rank-deficient solve with warnings.warn(RankWarning).
\* Under Python's default warnings filter, which the app never changes, a
\* warning is printed and the call returns: it is not an exception.
WarningsAreErrors == FALSE

RankWarningRaised(rankWarn) == rankWarn /\ WarningsAreErrors

\* regression_values of the original method: y is fitted unscaled
RegressionOriginal(y, deg) ==
    LET f == PolyfitValues(XTransformed("original", Len(y)), y, deg)
    IN  Reduced(f.num, f.den)

\* regression_values of the enhanced method: y is centred on its mean and
\* divided by y_std (1 when the series is constant), fitted, and the fit is
\* mapped back by "* y_std + y_mean".  The fit is linear in y, so the positive
\* factor y_std cancels; the centring is kept: y_scaled has numerators
\* n*y - sum(y) over n
RegressionEnhanced(y, deg) ==
    LET n == Len(y)
        s == Sum(y)
        f == PolyfitValues(XTransformed("enhanced", n), [t \in 1..n |-> n * y[t] - s], deg)
    IN  Reduced([t \in 1..n |-> f.num[t] + s * f.den], n * f.den)

\* std_residuals = np.std(y - regression_values), the population standard
\* deviation, in units of 1/(den * n * n): sqrt(sum((n*r - sum r)^2) / n^3)
\* in units of 1/den is sqrt(n * sum((n*r - sum r)^2)) in units of 1/(den*n*n)
StdResiduals(y, reg) ==
    LET n == Len(y)
        res == [t \in 1..n |-> y[t] * reg.den - reg.num[t]]
        sr == Sum(res)
    IN  ISqrt(n * Sum([t \in 1..n |-> (n * res[t] - sr) * (n * res[t] - sr)]))

\* "lower_band = regression_values - i * 1.5 * std_residuals" with its pair
BandOffsetFlat(i, std2) == 3 * std2

BandOffset(i, std2) == i * 3 * std2

\* The result (regression_values, bands, degree).  Every value is an integer
\* count of 1/unit, unit = 2 * den * n * n: twice the unit of StdResiduals,
\* so that the factor 1.5 is exact (1.5 * std = 3 * std / 2).
FitResult(y, deg, reg) ==
    LET n == Len(y)
        std == StdResiduals(y, reg)
        base == [t \in 1..n |-> 2 * n * n * reg.num[t]]
    IN  [raised |-> FALSE,
         degree |-> deg,
         unit |-> 2 * n * n * reg.den,
         regression_values |-> base,
         std_residuals |-> 2 * std,
         bands |-> [i \in 1..NumBands |->
                      [lower |-> [t \in 1..n |-> base[t] - BandOffset(i, std)],
                       upper |-> [t \in 1..n |-> base[t] + BandOffset(i, std)]]]]

Regression(variant, y, deg) ==
    IF variant = "original" THEN RegressionOriginal(y, deg) ELSE RegressionEnhanced(y, deg)

\* calculate_regression_curve(symbol, x, y, degree, num_bands, use_original).
\* rankWarn: np.polyfit found the solve rank-deficient at the clamped degree.
\* The enhanced method catches a raised RankWarning, halves the degree and
\* refits; the original method has no handler, so a raised warning leaves it.
CalculateRegressionCurve(variant, y, degree, rankWarn) ==
    LET deg == ClampDegree(degree, Len(y))
    IN  IF ~RankWarningRaised(rankWarn)
        THEN FitResult(y, deg, Regression(variant, y, deg))
        ELSE IF variant = "enhanced"
             THEN LET half == Max(1, deg \div 2)
                  IN  FitResult(y, half, RegressionEnhanced(y, half))
             ELSE [raised |-> TRUE]

(***************************************************************************)
(* The fitter as a state machine: one call per behaviour.                  *)
(***************************************************************************)
RECURSIVE SeqsOfLen(_, _)
SeqsOfLen(S, n) ==
    IF n = 0 THEN { << >> }
    ELSE { Append(s, x) : s \in SeqsOfLen(S, n - 1), x \in S }

PriceSeriesSet == UNION { SeqsOfLen(ClosePrices, n) : n \in 2..MaxLen }

\* requested degrees: every degree up to past the longest series, and the
\* slider's maximum
DegreeChoices == (MinDegree..(MaxLen + 1)) \cup {MaxDegree}

Idle == [pc |-> "idle"]

FitInit ==
    /\ fitter \in { [pc |-> "called", y |-> y, degree |-> d, variant |-> v, rankWarn |-> w,
                     out |-> [raised |-> FALSE]] :
                    y \in PriceSeriesSet, d \in DegreeChoices, v \in Variants,
                    w \in BOOLEAN }
    /\ sim = Idle
    /\ opt = Idle
    /\ page = Idle

FitReturn ==
    /\ fitter.pc = "called"
    /\ fitter' = [fitter EXCEPT !.pc = "returned",
                                !.out = CalculateRegressionCurve(fitter.variant, fitter.y,
                                                                 fitter.degree, fitter.rankWarn)]
    /\ UNCHANGED <<sim, opt, page>>

FitNext == FitReturn

SpecFit == FitInit /\ [][FitNext]_vars

FitReturned == fitter.pc = "returned" /\ ~fitter.out.raised

\* band i lies strictly outside band i-1, which lies strictly outside the baseline, at step t
StrictlyNested(out, i, t) ==
    /\ out.bands[i].lower[t] < out.bands[i - 1].lower[t]
    /\ out.bands[i - 1].lower[t] < out.regression_values[t]
    /\ out.regression_values[t] < out.bands[i - 1].upper[t]
    /\ out.bands[i - 1].upper[t] < out.bands[i].upper[t]

WeaklyNested(out, i, t) ==
    /\ out.bands[i].lower[t] <= out.bands[i - 1].lower[t]
    /\ out.bands[i - 1].lower[t] <= out.regression_values[t]
    /\ out.regression_values[t] <= out.bands[i - 1].upper[t]
    /\ out.bands[i - 1].upper[t] <= out.bands[i].upper[t]

Coincide(out, i, t) ==
    /\ out.bands[i].lower[t] = out.regression_values[t]
    /\ out.bands[i - 1].lower[t] = out.regression_values[t]
    /\ out.bands[i - 1].upper[t] = out.regression_values[t]
    /\ out.bands[i].upper[t] = out.regression_values[t]

C9_DegreeClamp ==
    fitter.pc = "returned" =>
        /\ ~fitter.out.raised
        /\ fitter.degree > Len(fitter.y) - 1 => fitter.out.degree = Len(fitter.y) - 1
        /\ (fitter.degree <= Len(fitter.y) - 1 /\ ~fitter.rankWarn) =>
              fitter.out.degree = fitter.degree

\* the slider's maximum requested on the longest series, clamped to n-1
C9_Witness ==
    /\ fitter.pc = "returned"
    /\ fitter.degree = MaxDegree
    /\ Len(fitter.y) = MaxLen
    /\ fitter.out.degree = MaxLen - 1

\* C23: when the polynomial solve is ill-conditioned (rank-deficient) the
\* fitter, in either variant, does not error: it halves the clamped degree
\* (minimum 1), refits once and returns the halved degree as effectiveDegree.
C23_HalvesWhenIllConditioned ==
    (fitter.pc = "returned" /\ fitter.rankWarn) =>
        /\ ~fitter.out.raised
        /\ fitter.out.degree = Max(1, ClampDegree(fitter.degree, Len(fitter.y)) \div 2)

(***************************************************************************)
(* DcaSimulator: run_dca_simulation, with detect_buy_signals.              *)
(*                                                                         *)
(* Prices, the baseline and the bands are whole dollars.  Money and shares *)
(* are fixed point: FixedPoint units per dollar and per share, so that     *)
(* shares * price and money have the same unit.  A date is the row's index *)
(* (trading-day cadence), so hold_days is a difference of indices.         *)
(***************************************************************************)
\* free (unconstrained) rows of a simulated series
MaxDays == 3

\* units per dollar and per share
FixedPoint == 100

\* "if i > 0 and i % 90 == 0:  # Quarterly"
DividendPeriod == 90

\* "amount_to_invest = daily_dca_amount * 5"
ZoneMultiplier == 5

\* Python's None, and a present value, for the fields that may be None
None == << >>

Some(v) == << v >>

\* the daily bars a free row may hold, on a grid of whole dollars, each with
\* Low <= Close <= High: flat days at every price, days that close at their
\* high, at their low, and in between
Bar(l, c, h) == [Low |-> l, Close |-> c, High |-> h]

Bars == { Bar(1, 1, 1), Bar(2, 2, 2), Bar(3, 3, 3), Bar(4, 4, 4),
          Bar(1, 2, 2), Bar(1, 1, 3), Bar(2, 3, 4), Bar(1, 4, 4) }

\* the baseline and band step (1.5 * std_residuals) of a simulated series:
\* bands one dollar apart around 2 and around 3, and bands that coincide
\* with the baseline (an exact fit)
BaselineCases ==
    { [regression |-> 2, band_step |-> 1],
      [regression |-> 3, band_step |-> 1],
      [regression |-> 2, band_step |-> 0] }

\* row j (0-based, as in .iloc[j]) of the stock data
Row(data, j) == data[j + 1]

\* regression_values[j] and the bands the fitter derives from it:
\* lower_band = regression_values - level * step, upper_band = ... + level * step,
\* step = 1.5 * std_residuals >= 0, one number for the whole series
RegressionAt(s, j) == s.regression

LowerBand(s, level, j) == RegressionAt(s, j) - level * s.band_step

UpperBand(s, level, j) == RegressionAt(s, j) + level * s.band_step

\* detect_buy_signals, the body of its loop for day i >= 1: the events of
\* that day, one per matching level, in ascending level order
DayBuySignalsStrictTouch(s, data, i) ==
    SelectSeq([level \in 1..NumBands |->
                  [date |-> i, price |-> Row(data, i).Close, zone_level |-> level,
                   zone_price |-> LowerBand(s, level, i)]],
              LAMBDA e :
                  LET buy_zone == LowerBand(s, e.zone_level, i)
                      buy_zone_yesterday == LowerBand(s, e.zone_level, i - 1)
                      yesterday_touched ==
                          /\ Row(data, i - 1).High > buy_zone_yesterday
                          /\ Row(data, i - 1).Low < buy_zone_yesterday
                      today_above ==
                          /\ Row(data, i).Low > buy_zone
                          /\ Row(data, i).High > buy_zone
                  IN  yesterday_touched /\ today_above)

DayBuySignals(s, data, i) ==
    SelectSeq([level \in 1..NumBands |->
                  [date |-> i, price |-> Row(data, i).Close, zone_level |-> level,
                   zone_price |-> LowerBand(s, level, i)]],
              LAMBDA e :
                  LET buy_zone == LowerBand(s, e.zone_level, i)
                      buy_zone_yesterday == LowerBand(s, e.zone_level, i - 1)
                      yesterday_touched ==
                          /\ Row(data, i - 1).High > buy_zone_yesterday
                          /\ Row(data, i - 1).Low <= buy_zone_yesterday
                      today_above ==
                          /\ Row(data, i).Low > buy_zone
                          /\ Row(data, i).High > buy_zone
                  IN  yesterday_touched /\ today_above)

\* detect_buy_signals(stock_data, bands): days 1..n-1 in order
RECURSIVE DetectBuySignalsUpTo(_, _, _)
DetectBuySignalsUpTo(s, data, i) ==
    IF i < 1 THEN << >>
    ELSE DetectBuySignalsUpTo(s, data, i - 1) \o DayBuySignals(s, data, i)

DetectBuySignals(s, data) == DetectBuySignalsUpTo(s, data, Len(data) - 1)

\* a lookup that keeps the first signal of the date
ZoneBuyLookupFirst(s, data, date) ==
    LET sigs == IF date >= 1 THEN DayBuySignals(s, data, date) ELSE << >>
    IN  IF sigs = << >> THEN None ELSE Some(sigs[1])

\* zone_buy_dates = {sig['date']: sig for sig in buy_signals}, looked up at
\* `date`: the last signal with that date, or None.  The signals dated i are
\* those of DayBuySignals(s, data, i): they read rows i-1 and i only.
ZoneBuyLookup(s, data, date) ==
    LET sigs == IF date >= 1 THEN DayBuySignals(s, data, date) ELSE << >>
    IN  IF sigs = << >> THEN None ELSE Some(sigs[Len(sigs)])

\* the take-profit check of day i: the first level, ascending, whose zone
\* yesterday's high was below and today's high or close reaches; 0 if none
\* or if the check is not armed
TakeProfitLevelWidest(s, data, i) ==
    IF ~(s.total_shares > 0 /\ i > 0) THEN 0
    ELSE LET hit == { level \in 1..NumBands :
                        /\ Row(data, i - 1).High < UpperBand(s, level, i - 1)
                        /\ \/ Row(data, i).High >= UpperBand(s, level, i)
                           \/ Row(data, i).Close >= UpperBand(s, level, i) }
         IN  IF hit = {} THEN 0 ELSE CHOOSE level \in hit : \A other \in hit : level >= other

TakeProfitLevel(s, data, i) ==
    IF ~(s.total_shares > 0 /\ i > 0) THEN 0
    ELSE LET hit == { level \in 1..NumBands :
                        /\ Row(data, i - 1).High < UpperBand(s, level, i - 1)
                        /\ \/ Row(data, i).High >= UpperBand(s, level, i)
                           \/ Row(data, i).Close >= UpperBand(s, level, i) }
         IN  IF hit = {} THEN 0 ELSE CHOOSE level \in hit : \A other \in hit : level <= other

\* a sell-all that leaves the open positions without sell info
ClosePositionSkipped(pos, i, price, level) == pos

\* "Update all open positions with sell info": the body of the loop over
\* position_history
ClosePosition(pos, i, price, level) ==
    IF pos.sell_date = None
    THEN [pos EXCEPT !.sell_date = Some(i),
                     !.sell_price = Some(price),
                     !.sell_level = Some(level),
                     !.profit_loss = Some((price - pos.buy_price) * pos.shares),
                     !.roi = Some(((price - pos.buy_price) * 100) \div pos.buy_price),
                     !.hold_days = Some(i - pos.buy_date)]
    ELSE pos

\* "SELL ENTIRE BAG at TP zone" (lines 1049-1073)
SellEntireBagKeepsShares(s, data, i, level) ==
    LET price == Row(data, i).Close
        sale_amount == s.total_shares * price
    IN  [s EXCEPT !.cash_from_sales = @ + sale_amount,
                  !.sell_count = @ + 1,
                  !.position_history = [k \in 1..Len(@) |-> ClosePosition(@[k], i, price, level)],
                  !.trades = Append(@, [date |-> i, type |-> "SELL", level |-> level,
                                        price |-> price, shares |-> s.total_shares,
                                        amount |-> sale_amount])]

SellEntireBag(s, data, i, level) ==
    LET price == Row(data, i).Close
        sale_amount == s.total_shares * price
    IN  [s EXCEPT !.cash_from_sales = @ + sale_amount,
                  !.sell_count = @ + 1,
                  !.position_history = [k \in 1..Len(@) |-> ClosePosition(@[k], i, price, level)],
                  !.trades = Append(@, [date |-> i, type |-> "SELL", level |-> level,
                                        price |-> price, shares |-> s.total_shares,
                                        amount |-> sale_amount]),
                  !.total_shares = 0]

\* step 1 of the day: the take-profit check
AfterTakeProfit(s, data, i) ==
    LET level == TakeProfitLevel(s, data, i)
    IN  IF level = 0 THEN s ELSE SellEntireBag(s, data, i, level)

\* step 2 of the day: the quarterly dividend, reinvested at the close
AfterDividendEveryDay(s, data, i) ==
    IF /\ s.asset_type = "Stock"
       /\ s.dividend_info # None
       /\ s.dividend_info[1].pays_dividend
       /\ s.total_shares > 0
       /\ i > 0
    THEN LET quarterly_dividend == (s.dividend_info[1].dividend_rate * s.total_shares) \div 4
             div_shares == quarterly_dividend \div Row(data, i).Close
         IN  [s EXCEPT !.dividend_income = @ + quarterly_dividend,
                       !.total_shares = @ + div_shares,
                       !.dividend_shares_bought = @ + div_shares]
    ELSE s

AfterDividend(s, data, i) ==
    IF /\ s.asset_type = "Stock"
       /\ s.dividend_info # None
       /\ s.dividend_info[1].pays_dividend
       /\ s.total_shares > 0
       /\ i > 0 /\ i % DividendPeriod = 0
    THEN LET quarterly_dividend == (s.dividend_info[1].dividend_rate * s.total_shares) \div 4
             div_shares == quarterly_dividend \div Row(data, i).Close
         IN  [s EXCEPT !.dividend_income = @ + quarterly_dividend,
                       !.total_shares = @ + div_shares,
                       !.dividend_shares_bought = @ + div_shares]
    ELSE s

\* a purchase that leaves no buy_record in position_history
PurchaseWithoutPosition(s, data, i, amount_to_invest, level, buy_type, trade_type) ==
    LET price == Row(data, i).Close
        shares_bought == amount_to_invest \div price
    IN  [s EXCEPT !.total_invested = @ + amount_to_invest,
                  !.total_shares = @ + shares_bought,
                  !.trades = Append(@, [date |-> i, type |-> trade_type, level |-> level,
                                        price |-> price, shares |-> shares_bought,
                                        amount |-> amount_to_invest])]

\* a purchase of amount_to_invest at today's close: the shared body of the
\* two buy branches (lines 1089-1118 and 1121-1150)
Purchase(s, data, i, amount_to_invest, level, buy_type, trade_type) ==
    LET price == Row(data, i).Close
        shares_bought == amount_to_invest \div price
    IN  [s EXCEPT !.total_invested = @ + amount_to_invest,
                  !.total_shares = @ + shares_bought,
                  !.position_history =
                      Append(@, [buy_date |-> i, buy_price |-> price, buy_level |-> level,
                                 buy_type |-> buy_type, shares |-> shares_bought,
                                 amount_invested |-> amount_to_invest,
                                 sell_date |-> None, sell_price |-> None,
                                 sell_level |-> None, profit_loss |-> None,
                                 roi |-> None, hold_days |-> None]),
                  !.trades = Append(@, [date |-> i, type |-> trade_type, level |-> level,
                                        price |-> price, shares |-> shares_bought,
                                        amount |-> amount_to_invest])]

\* step 3 of the day: the zone buy (5X) or else the daily buy below the baseline
AfterBuyZoneAndDaily(s, data, i) ==
    LET signal == ZoneBuyLookup(s, data, i)
        zoned == IF signal # None
                 THEN [Purchase(s, data, i, s.daily_dca_amount * ZoneMultiplier,
                                signal[1].zone_level, "5X Zone", "BUY 5X")
                          EXCEPT !.zone_buy_count = @ + 1]
                 ELSE s
    IN  IF Row(data, i).Close < RegressionAt(s, i)
        THEN [Purchase(zoned, data, i, s.daily_dca_amount, 0, "Daily DCA", "BUY Daily")
                 EXCEPT !.daily_buy_count = @ + 1]
        ELSE zoned

AfterBuyDailyAtOrBelow(s, data, i) ==
    LET signal == ZoneBuyLookup(s, data, i)
    IN  IF signal # None
        THEN [Purchase(s, data, i, s.daily_dca_amount * ZoneMultiplier,
                       signal[1].zone_level, "5X Zone", "BUY 5X")
                 EXCEPT !.zone_buy_count = @ + 1]
        ELSE IF Row(data, i).Close <= RegressionAt(s, i)
             THEN [Purchase(s, data, i, s.daily_dca_amount, 0, "Daily DCA", "BUY Daily")
                      EXCEPT !.daily_buy_count = @ + 1]
             ELSE s

AfterBuy(s, data, i) ==
    LET signal == ZoneBuyLookup(s, data, i)
    IN  IF signal # None
        THEN [Purchase(s, data, i, s.daily_dca_amount * ZoneMultiplier,
                       signal[1].zone_level, "5X Zone", "BUY 5X")
                 EXCEPT !.zone_buy_count = @ + 1]
        ELSE IF Row(data, i).Close < RegressionAt(s, i)
             THEN [Purchase(s, data, i, s.daily_dca_amount, 0, "Daily DCA", "BUY Daily")
                      EXCEPT !.daily_buy_count = @ + 1]
             ELSE s

\* step 4 of the day: "Track daily portfolio value"
AfterSnapshotInvested(s, data, i) ==
    [s EXCEPT !.portfolio_history =
        Append(@, [date |-> i, total_invested |-> s.total_invested,
                   portfolio_value |-> s.total_invested + s.cash_from_sales,
                   shares |-> s.total_shares, cash |-> s.cash_from_sales])]

AfterSnapshot(s, data, i) ==
    [s EXCEPT !.portfolio_history =
        Append(@, [date |-> i, total_invested |-> s.total_invested,
                   portfolio_value |-> (s.total_shares * Row(data, i).Close) + s.cash_from_sales,
                   shares |-> s.total_shares, cash |-> s.cash_from_sales])]

\* one iteration of "for i in range(len(stock_data))" on row i
DayBodyBuyFirst(s, data, i) ==
    AfterSnapshot(AfterDividend(AfterTakeProfit(AfterBuy(s, data, i), data, i), data, i), data, i)

DayBody(s, data, i) ==
    AfterSnapshot(AfterBuy(AfterDividend(AfterTakeProfit(s, data, i), data, i), data, i), data, i)

\* the scan without "tp_zone < next_tp_price": the last zone above the price
RECURSIVE NextTpScanLast(_, _, _, _)
NextTpScanLast(s, current_price, level, best) ==
    IF level > NumBands THEN best
    ELSE LET tp_zone == UpperBand(s, level, s.n - 1)
         IN  NextTpScanLast(s, current_price, level + 1,
                            IF tp_zone > current_price
                            THEN [next_tp_level |-> Some(level), next_tp_price |-> Some(tp_zone)]
                            ELSE best)

\* "Find next TP target - the lowest TP zone above current price"
RECURSIVE NextTpScan(_, _, _, _)
NextTpScan(s, current_price, level, best) ==
    IF level > NumBands THEN best
    ELSE LET tp_zone == UpperBand(s, level, s.n - 1)
             better == /\ tp_zone > current_price
                       /\ (best.next_tp_price = None \/ tp_zone < best.next_tp_price[1])
         IN  NextTpScan(s, current_price, level + 1,
                        IF better
                        THEN [next_tp_level |-> Some(level), next_tp_price |-> Some(tp_zone)]
                        ELSE best)

\* "Final calculations" and the returned dict (lines 1162-1200)
FinalResult(s, data) ==
    LET current_price == Row(data, s.n - 1).Close
        current_value == s.total_shares * current_price
        total_return == s.cash_from_sales + current_value - s.total_invested
        next_tp == NextTpScan(s, current_price, 1,
                              [next_tp_level |-> None, next_tp_price |-> None])
    IN  [total_invested |-> s.total_invested,
         total_shares |-> s.total_shares,
         cash_from_sales |-> s.cash_from_sales,
         current_value |-> current_value,
         dividend_income |-> s.dividend_income,
         dividend_shares_bought |-> s.dividend_shares_bought,
         dividend_shares_value |-> s.dividend_shares_bought * current_price,
         total_return |-> total_return,
         roi_percentage |-> IF s.total_invested > 0
                            THEN (total_return * 100) \div s.total_invested ELSE 0,
         next_tp_level |-> next_tp.next_tp_level,
         next_tp_price |-> next_tp.next_tp_price,
         trades |-> s.trades,
         portfolio_history |-> s.portfolio_history,
         daily_buy_count |-> s.daily_buy_count,
         zone_buy_count |-> s.zone_buy_count,
         sell_count |-> s.sell_count,
         daily_dca_amount |-> s.daily_dca_amount,
         position_history |-> s.position_history]

(***************************************************************************)
(* The simulator as a state machine: one call per behaviour.  The rows of  *)
(* stock_data are the call's input; the model draws row i when the loop    *)
(* reaches it (no step reads a later row).  A series starts with           *)
(* quiet_days rows that sit on the baseline, where nothing is bought, so   *)
(* that the quarterly dividend day is within reach of the free rows.       *)
(***************************************************************************)
\* "Total Investment ($)", min_value=100.0
MinBudget == 100

DividendCases ==
    { [asset_type |-> "Crypto", dividend_info |-> None],
      [asset_type |-> "Stock", dividend_info |-> Some([pays_dividend |-> FALSE, dividend_rate |-> 0])],
      [asset_type |-> "Stock", dividend_info |-> Some([pays_dividend |-> TRUE, dividend_rate |-> 4])] }

\* the series' shapes: short ones, and ones whose free rows straddle the first dividend day
SeriesShapes ==
    { [quiet_days |-> 0, n |-> k] : k \in 0..MaxDays }
    \cup { [quiet_days |-> DividendPeriod - 1, n |-> DividendPeriod - 1 + k] : k \in 2..MaxDays }

SimArgs ==
    { [pc |-> "called", n |-> sh.n, quiet_days |-> sh.quiet_days,
       total_budget |-> MinBudget * FixedPoint,
       asset_type |-> dc.asset_type, dividend_info |-> dc.dividend_info,
       regression |-> bc.regression, band_step |-> bc.band_step, stock_data |-> << >>] :
      sh \in SeriesShapes, dc \in DividendCases, bc \in BaselineCases }

SimInit ==
    /\ sim \in SimArgs
    /\ fitter = Idle
    /\ opt = Idle
    /\ page = Idle

\* lines 1004-1026: the daily allotment and the locals.  Dividing by a
\* zero-length series raises ZeroDivisionError.
SimStart ==
    /\ sim.pc = "called"
    /\ sim' = IF sim.n = 0
              THEN [pc |-> "raised", n |-> 0, exception |-> "ZeroDivisionError"]
              ELSE [pc |-> "loop"] @@
                   [daily_dca_amount |-> sim.total_budget \div sim.n,
                    total_invested |-> 0, total_shares |-> 0, cash_from_sales |-> 0,
                    dividend_income |-> 0, dividend_shares_bought |-> 0,
                    trades |-> << >>, position_history |-> << >>,
                    daily_buy_count |-> 0, zone_buy_count |-> 0, sell_count |-> 0,
                    portfolio_history |-> << >>] @@ sim
    /\ UNCHANGED <<fitter, opt, page>>

\* the rows the series may hold at index i
RowChoices(s, i) ==
    IF i < s.quiet_days
    THEN { Bar(s.regression, s.regression, s.regression) }
    ELSE Bars

\* one iteration of the loop (lines 1029-1160)
SimDay ==
    /\ sim.pc = "loop"
    /\ Len(sim.stock_data) < sim.n
    /\ \E bar \in RowChoices(sim, Len(sim.stock_data)) :
          LET i == Len(sim.stock_data)
              data == Append(sim.stock_data, bar)
          IN  sim' = [DayBody(sim, data, i) EXCEPT !.stock_data = data]
    /\ UNCHANGED <<fitter, opt, page>>

\* lines 1162-1200
SimReturn ==
    /\ sim.pc = "loop"
    /\ Len(sim.stock_data) = sim.n
    /\ sim' = [pc |-> "returned", result |-> FinalResult(sim, sim.stock_data)] @@ sim
    /\ UNCHANGED <<fitter, opt, page>>

SimNext == SimStart \/ SimDay \/ SimReturn

SpecSim == SimInit /\ [][SimNext]_vars

SimRunning == sim.pc \in {"loop", "returned"}

SellTrades == { k \in 1..Len(sim.trades) : sim.trades[k].type = "SELL" }

HasSellFields(pos) ==
    pos.sell_date # None /\ pos.sell_price # None /\ pos.sell_level # None

\* C2: after a sell-all the share balance is zero until the next buy (the
\* last recorded trade being a SELL, nothing was bought since), and every
\* Position opened strictly before a sell-all has non-null sell_date,
\* sell_price and sell_level, after any number of buy/sell cycles.
C2_SellClosesAll ==
    SimRunning =>
        /\ (sim.trades # << >> /\ sim.trades[Len(sim.trades)].type = "SELL") =>
              sim.total_shares = 0
        /\ \A k \in SellTrades : \A j \in 1..Len(sim.position_history) :
              sim.position_history[j].buy_date < sim.trades[k].date =>
                  /\ HasSellFields(sim.position_history[j])
                  /\ sim.position_history[j].sell_date[1] <= sim.trades[k].date

\* a second sell-all in one run, with nothing bought after it
C2_Witness ==
    /\ SimRunning
    /\ sim.sell_count >= 2
    /\ sim.trades[Len(sim.trades)].type = "SELL"
    /\ Len(sim.position_history) >= 2

\* C3: every snapshot has portfolio_value = shares * that day's close + cash,
\* shares and cash being the balances after that day's take-profit, dividend
\* and buy steps, and exactly one snapshot is appended per simulated day.
C3_SnapshotConservation ==
    SimRunning =>
        /\ Len(sim.portfolio_history) = Len(sim.stock_data)
        /\ \A k \in 1..Len(sim.portfolio_history) :
              /\ sim.portfolio_history[k].date = k - 1
              /\ sim.portfolio_history[k].portfolio_value =
                    sim.portfolio_history[k].shares * sim.stock_data[k].Close
                    + sim.portfolio_history[k].cash
        /\ sim.portfolio_history # << >> =>
              /\ sim.portfolio_history[Len(sim.portfolio_history)].shares = sim.total_shares
              /\ sim.portfolio_history[Len(sim.portfolio_history)].cash = sim.cash_from_sales

\* a snapshot taken with both shares held and cash realised
C3_Witness ==
    /\ SimRunning
    /\ Len(sim.portfolio_history) = MaxDays
    /\ sim.total_shares > 0
    /\ sim.cash_from_sales > 0

NeverBelowBaseline ==
    \A k \in 1..Len(sim.stock_data) : sim.stock_data[k].Close >= RegressionAt(sim, k - 1)

\* C4 as stated: on a series whose close is never below the baseline the
\* simulation returns daily_buy_count = 0, total_invested = 0 and
\* roi_percentage = 0.
C4_NeverBelowInvestsNothing ==
    (sim.pc = "returned" /\ NeverBelowBaseline) =>
        /\ sim.result.daily_buy_count = 0
        /\ sim.result.total_invested = 0
        /\ sim.result.roi_percentage = 0

\* C4 amended: on a series whose close is never below the baseline the
\* simulation returns daily_buy_count = 0 and invests only in zone buys,
\* total_invested = 5 * dailyDcaAmount * zone_buy_count; when, in addition,
\* no zone-buy signal is detected, total_invested and roi_percentage are 0
\* and no trade is made.
C4_NeverBelowOnlyZoneBuys ==
    (sim.pc = "returned" /\ NeverBelowBaseline) =>
        /\ sim.result.daily_buy_count = 0
        /\ sim.result.total_invested =
              ZoneMultiplier * sim.daily_dca_amount * sim.result.zone_buy_count
        /\ DetectBuySignals(sim, sim.stock_data) = << >> =>
              /\ sim.result.total_invested = 0
              /\ sim.result.trades = << >>
              /\ sim.result.roi_percentage = 0

\* a full-length series that rides at or above a baseline it could have
\* gone below, with no zone-buy signal, returning zeros
C4_Witness ==
    /\ sim.pc = "returned"
    /\ sim.n = MaxDays
    /\ sim.band_step > 0
    /\ NeverBelowBaseline
    /\ DetectBuySignals(sim, sim.stock_data) = << >>
    /\ sim.result.total_invested = 0
    /\ sim.result.roi_percentage = 0

\* C8: run_dca_simulation on a zero-length series does not raise (no division
\* by zero in the daily allotment) and returns totals and counts that are all
\* zero.
C8_ZeroLengthReturnsZeros ==
    sim.n = 0 =>
        /\ sim.pc # "raised"
        /\ sim.pc = "returned" =>
              /\ sim.result.total_invested = 0
              /\ sim.result.total_return = 0
              /\ sim.result.daily_buy_count = 0
              /\ sim.result.zone_buy_count = 0
              /\ sim.result.sell_count = 0

(***************************************************************************)
(* IntensityOptimizer: optimize_degree.                                    *)
(*                                                                         *)
(* What one candidate's try block produces (the fit, the truncation, the   *)
(* simulation) is an input of the sweep: either an exception, from the fit *)
(* or from the simulation, or the simulation's result.  A float is a       *)
(* record: inf = -1 for float('-inf'), inf = 0 and its value otherwise.    *)
(***************************************************************************)
\* largest "Max Intensity" the sweep is given
MaxOptDegree == 5

\* "Test Every N Levels": st.sidebar.selectbox([1, 2, 3, 5])
OptSteps == {1, 2, 3, 5}

\* the ROI percentages a candidate's simulation may return
RoiValues == {-1, 0, 2}

NegInfinity == [inf |-> -1, v |-> 0]

Finite(x) == [inf |-> 0, v |-> x]

\* "if roi > best_roi": a > b on floats
FloatGreaterOrEqual(a, b) ==
    \/ a.inf > b.inf
    \/ a.inf = 0 /\ b.inf = 0 /\ a.v >= b.v

FloatGreater(a, b) ==
    \/ a.inf > b.inf
    \/ a.inf = 0 /\ b.inf = 0 /\ a.v > b.v

\* range(degree_range[0], degree_range[1] + 1, step), as a sequence
RECURSIVE RangeFrom(_, _, _)
RangeFrom(lo, hi, step) ==
    IF lo > hi THEN << >> ELSE << lo >> \o RangeFrom(lo + step, hi, step)

\* the results a candidate's run_dca_simulation may return
SimOutcomes ==
    { [kind |-> "ok",
       sim_results |-> [roi_percentage |-> r, total_return |-> r * FixedPoint,
                        total_invested |-> 100 * FixedPoint, daily_buy_count |-> 1,
                        zone_buy_count |-> 0, sell_count |-> 0]] : r \in RoiValues }

\* what a candidate's try block may do
TryOutcomes ==
    { [kind |-> "fit_raises"], [kind |-> "sim_raises"] } \cup SimOutcomes

\* lines 1208-1210: the locals before the sweep
OptLocalsBestZero(o) ==
    [pc |-> "sweep", results |-> << >>, best_roi |-> Finite(0),
     best_degree |-> o.degree_range[1], next |-> 1, tried |-> << >>] @@ o

OptLocals(o) ==
    [pc |-> "sweep", results |-> << >>, best_roi |-> NegInfinity,
     best_degree |-> o.degree_range[1], next |-> 1, tried |-> << >>] @@ o

\* lines 1253-1266: the candidate's result is recorded, and becomes the best
\* if its ROI is greater than the best so far
OnSuccessTiesWin(o, test_degree, sim_results) ==
    LET roi == Finite(sim_results.roi_percentage)
        recorded == [o EXCEPT !.results =
                        Append(@, [degree |-> test_degree,
                                   roi |-> sim_results.roi_percentage,
                                   total_return |-> sim_results.total_return,
                                   total_invested |-> sim_results.total_invested,
                                   daily_buys |-> sim_results.daily_buy_count,
                                   zone_buys |-> sim_results.zone_buy_count,
                                   sells |-> sim_results.sell_count])]
    IN  IF FloatGreaterOrEqual(roi, o.best_roi)
        THEN [recorded EXCEPT !.best_roi = roi, !.best_degree = test_degree]
        ELSE recorded

OnSuccess(o, test_degree, sim_results) ==
    LET roi == Finite(sim_results.roi_percentage)
        recorded == [o EXCEPT !.results =
                        Append(@, [degree |-> test_degree,
                                   roi |-> sim_results.roi_percentage,
                                   total_return |-> sim_results.total_return,
                                   total_invested |-> sim_results.total_invested,
                                   daily_buys |-> sim_results.daily_buy_count,
                                   zone_buys |-> sim_results.zone_buy_count,
                                   sells |-> sim_results.sell_count])]
    IN  IF FloatGreater(roi, o.best_roi)
        THEN [recorded EXCEPT !.best_roi = roi, !.best_degree = test_degree]
        ELSE recorded

\* lines 1268-1270: "except Exception as e: continue"
OnFailureRecorded(o, test_degree) ==
    [o EXCEPT !.results = Append(@, [degree |-> test_degree, roi |-> 0, total_return |-> 0,
                                     total_invested |-> 0, daily_buys |-> 0,
                                     zone_buys |-> 0, sells |-> 0])]

OnFailure(o, test_degree) == o

\* one iteration of the sweep on test_degree, given what its try block did
Iteration(o, test_degree, outcome) ==
    IF outcome.kind = "ok"
    THEN OnSuccess(o, test_degree, outcome.sim_results)
    ELSE OnFailure(o, test_degree)

OptArgs ==
    { [pc |-> "called", degree_range |-> << lo, hi >>, step |-> st] :
      lo \in MinDegree..MaxOptDegree, hi \in MinDegree..MaxOptDegree, st \in OptSteps }

OptInit ==
    /\ opt \in OptArgs
    /\ fitter = Idle
    /\ sim = Idle
    /\ page = Idle

OptStart ==
    /\ opt.pc = "called"
    /\ opt' = OptLocals(opt)
    /\ UNCHANGED <<fitter, sim, page>>

OptCandidates(o) == RangeFrom(o.degree_range[1], o.degree_range[2], o.step)

\* one pass of the for loop.  tried is the history of the sweep: each
\* candidate with what its try block did.
OptIterate ==
    /\ opt.pc = "sweep"
    /\ opt.next <= Len(OptCandidates(opt))
    /\ \E outcome \in TryOutcomes :
          LET test_degree == OptCandidates(opt)[opt.next]
          IN  opt' = [Iteration(opt, test_degree, outcome) EXCEPT
                         !.next = @ + 1,
                         !.tried = Append(@, [degree |-> test_degree, kind |-> outcome.kind,
                                              roi |-> IF outcome.kind = "ok"
                                                      THEN outcome.sim_results.roi_percentage
                                                      ELSE 0])]
    /\ UNCHANGED <<fitter, sim, page>>

\* lines 1272-1276
OptReturn ==
    /\ opt.pc = "sweep"
    /\ opt.next > Len(OptCandidates(opt))
    /\ opt' = [pc |-> "returned",
               result |-> [optimal_degree |-> opt.best_degree, best_roi |-> opt.best_roi,
                           all_results |-> opt.results]] @@ opt
    /\ UNCHANGED <<fitter, sim, page>>

OptNext == OptStart \/ OptIterate \/ OptReturn

SpecOpt == OptInit /\ [][OptNext]_vars

\* the candidates of the sweep that did not fail, and those that did
Succeeded == { k \in 1..Len(opt.tried) : opt.tried[k].kind = "ok" }

Failed == { k \in 1..Len(opt.tried) : opt.tried[k].kind # "ok" }

\* C5: the returned optimal_degree is the tested degree with the greatest
\* ROI among the candidates that did not fail, the lowest such degree when
\* several tie for the greatest, and best_roi is that candidate's ROI.
C5_BestIsFirstMaximum ==
    (opt.pc = "returned" /\ Succeeded # {}) =>
        \E k \in Succeeded :
            /\ opt.result.optimal_degree = opt.tried[k].degree
            /\ opt.result.best_roi = Finite(opt.tried[k].roi)
            /\ \A j \in Succeeded :
                  /\ opt.tried[j].roi <= opt.tried[k].roi
                  /\ opt.tried[j].roi = opt.tried[k].roi =>
                        opt.tried[k].degree <= opt.tried[j].degree

\* a sweep in which a later candidate ties the best ROI of an earlier one
C5_Witness ==
    /\ opt.pc = "returned"
    /\ \E k \in Succeeded : \E j \in Succeeded :
          /\ k < j
          /\ opt.tried[j].roi = opt.tried[k].roi
          /\ opt.result.optimal_degree = opt.tried[k].degree
          /\ \A m \in Succeeded : opt.tried[m].roi <= opt.tried[k].roi
    /\ Failed # {}

\* C6: when every candidate fails, optimize_degree returns (it does not
\* raise) optimal_degree = the range minimum, best_roi = -infinity and an
\* empty all_results.
C6_AllFailedSentinel ==
    (opt.pc \in {"sweep", "returned"} /\ Succeeded = {}) =>
        /\ opt.best_degree = opt.degree_range[1]
        /\ opt.best_roi = NegInfinity
        /\ opt.results = << >>
        /\ opt.pc = "returned" =>
              /\ opt.result.optimal_degree = opt.degree_range[1]
              /\ opt.result.best_roi = NegInfinity
              /\ opt.result.all_results = << >>
              /\ Len(opt.tried) = Len(OptCandidates(opt))

\* a sweep of several candidates, every one failing, in the fit and in the simulation
C6_Witness ==
    /\ opt.pc = "returned"
    /\ Len(opt.tried) >= 2
    /\ Succeeded = {}
    /\ \E k \in Failed : opt.tried[k].kind = "fit_raises"
    /\ \E k \in Failed : opt.tried[k].kind = "sim_raises"

\* the degrees of all_results are exactly the succeeded candidates, in sweep order
ResultsAreTheSucceeded ==
    /\ Len(opt.result.all_results) = Cardinality(Succeeded)
    /\ \A k \in Succeeded :
          \E m \in 1..Len(opt.result.all_results) :
              /\ opt.result.all_results[m].degree = opt.tried[k].degree
              /\ opt.result.all_results[m].roi = opt.tried[k].roi
    /\ \A m \in 1..Len(opt.result.all_results) : \A q \in 1..Len(opt.result.all_results) :
          m < q => opt.result.all_results[m].degree < opt.result.all_results[q].degree
    /\ \A k \in Failed : \A m \in 1..Len(opt.result.all_results) :
          opt.result.all_results[m].degree # opt.tried[k].degree

\* C7 as stated: a candidate that raises is absent from all_results and is
\* not the returned optimal_degree, and every candidate that did not raise
\* is in all_results exactly once, in ascending degree order.
C7_FailedNeverOptimal ==
    opt.pc = "returned" =>
        /\ ResultsAreTheSucceeded
        /\ \A k \in Failed : opt.result.optimal_degree # opt.tried[k].degree

\* C7 amended: a candidate that raises is absent from all_results, and is the
\* returned optimal_degree only when every candidate raised (optimal_degree is
\* then left at the range minimum, with best_roi = -infinity); every candidate
\* that did not raise is in all_results exactly once, in ascending order.
C7_FailedOptimalOnlyAsSentinel ==
    opt.pc = "returned" =>
        /\ ResultsAreTheSucceeded
        /\ \A k \in Failed :
              opt.result.optimal_degree = opt.tried[k].degree =>
                  /\ Succeeded = {}
                  /\ opt.result.best_roi = NegInfinity
                  /\ opt.result.optimal_degree = opt.degree_range[1]

\* failures first, in the middle and last in one sweep, around two successes
C7_Witness ==
    /\ opt.pc = "returned"
    /\ Len(opt.tried) = MaxOptDegree
    /\ opt.tried[1].kind # "ok"
    /\ opt.tried[2].kind = "ok"
    /\ opt.tried[3].kind # "ok"
    /\ opt.tried[4].kind = "ok"
    /\ opt.tried[MaxOptDegree].kind # "ok"
    /\ Len(opt.result.all_results) = MaxOptDegree - 3

(***************************************************************************)
(* The page's caches: st.cache_data around get_stock_data (ttl 300 s) and  *)
(* around the two fitters (ttl 86400 s).  st.cache_data keys an entry by   *)
(* the function and its hashed arguments; an argument whose name starts    *)
(* with an underscore (_x_values, _y_values) is not hashed.  A series is   *)
(* its number of rows: the provider appends a row per trading day.         *)
(***************************************************************************)
\* @st.cache_data(ttl=300) on get_stock_data
PriceTtl == 300

\* @st.cache_data(ttl=86400) on calculate_regression_curve_original / _enhanced
FitTtl == 86400

\* "if len(stock_data) < 30:" in app
MinObservations == 30

\* page runs, rows the provider appends, and lapses of time in one behaviour
MaxRuns == 2

MaxNewRows == 2

MaxLapses == 2

Symbols == {"AAA", "BBB"}

PageDegrees == {2, 40}

\* an entry is served while it is younger than its ttl
Fresh(entry, ttl, clock) == entry # None /\ clock - entry[1].stored_at < ttl

\* get_stock_data(symbol) through its cache: the key is (symbol, time_range),
\* and every call passes the default time_range
StockCacheKey(symbol) == symbol

GetStockData(pg, symbol) ==
    IF Fresh(pg.stock_cache[StockCacheKey(symbol)], PriceTtl, pg.clock)
    THEN [value |-> pg.stock_cache[StockCacheKey(symbol)][1].value, cache |-> pg.stock_cache]
    ELSE LET fetched == [symbol |-> symbol, rows |-> pg.provider[symbol]]
         IN  [value |-> fetched,
              cache |-> [pg.stock_cache EXCEPT ![StockCacheKey(symbol)] =
                            Some([value |-> fetched, stored_at |-> pg.clock])]]

\* the fit of a series: regression_values and every band have one value per
\* row of the series fitted, at the clamped degree
FitOf(stock_data, degree) ==
    [rows |-> stock_data.rows, degree |-> ClampDegree(degree, stock_data.rows)]

\* the cache key of calculate_regression_curve_original / _enhanced(symbol,
\* _x_values, _y_values, degree, num_bands): the function (one per variant)
\* and the hashed arguments symbol, degree and num_bands
FitCacheKey(variant, symbol, stock_data, degree) ==
    << variant, symbol, degree, NumBands >>

\* calculate_regression_curve(symbol, stock_data.index, stock_data['Close'],
\* degree, use_original=...) through the cache of the variant's function
CalculateRegressionCurveCached(pg, variant, symbol, stock_data, degree) ==
    LET key == FitCacheKey(variant, symbol, stock_data, degree)
    IN  IF key \in DOMAIN pg.fit_cache /\ Fresh(pg.fit_cache[key], FitTtl, pg.clock)
        THEN [value |-> pg.fit_cache[key][1].value, cache |-> pg.fit_cache]
        ELSE LET fit == FitOf(stock_data, degree)
             IN  [value |-> fit,
                  cache |-> (key :> Some([value |-> fit, stored_at |-> pg.clock]))
                            @@ pg.fit_cache]

PageInit ==
    /\ page = [pc |-> "serving", clock |-> 0, runs |-> 0, lapses |-> 0,
               provider |-> [sym \in Symbols |-> MinObservations - 1],
               stock_cache |-> [sym \in Symbols |-> None],
               fit_cache |-> << >>,
               last_run |-> None]
    /\ fitter = Idle
    /\ sim = Idle
    /\ opt = Idle

\* time passes between page runs
TimePasses ==
    /\ page.lapses < MaxLapses
    /\ \E dt \in {PriceTtl, FitTtl} :
          page' = [page EXCEPT !.clock = @ + dt, !.lapses = @ + 1]
    /\ UNCHANGED <<fitter, sim, opt>>

\* a trading day ends: the provider's history of a symbol grows by a row
ProviderAppendsRow ==
    /\ \E sym \in Symbols :
          /\ page.provider[sym] < MinObservations + MaxNewRows
          /\ page' = [page EXCEPT !.provider[sym] = @ + 1]
    /\ UNCHANGED <<fitter, sim, opt>>

\* one run of app() for a symbol, degree and variant (lines 1924-2037): the
\* series is fetched, refused if shorter than 30 rows, and fitted
PageRun ==
    /\ page.runs < MaxRuns
    /\ \E sym \in Symbols, degree \in PageDegrees, variant \in Variants :
          LET got == GetStockData(page, sym)
              fit == CalculateRegressionCurveCached(page, variant, sym, got.value, degree)
          IN  page' = IF got.value.rows < MinObservations
                      THEN [page EXCEPT !.runs = @ + 1,
                                        !.stock_cache = got.cache,
                                        !.last_run = None]
                      ELSE [page EXCEPT !.runs = @ + 1,
                                        !.stock_cache = got.cache,
                                        !.fit_cache = fit.cache,
                                        !.last_run = Some([symbol |-> sym, degree |-> degree,
                                                           variant |-> variant,
                                                           stock_data |-> got.value,
                                                           fit |-> fit.value])]
    /\ UNCHANGED <<fitter, sim, opt>>

\* the "Refresh Data" button: st.cache_data.clear()
RefreshData ==
    /\ page.last_run # None
    /\ page' = [page EXCEPT !.stock_cache = [sym \in Symbols |-> None],
                            !.fit_cache = << >>,
                            !.last_run = None]
    /\ UNCHANGED <<fitter, sim, opt>>

PageNext == TimePasses \/ ProviderAppendsRow \/ PageRun \/ RefreshData

SpecPage == PageInit /\ [][PageNext]_vars

\* C10: across any sequence of page runs the baseline and bands a run uses
\* are those fitted to the series the run uses: when the fetched series of a
\* symbol changes while symbol, degree and variant stay the same the fit is
\* recomputed, so baseline and bands have the length of the series they are
\* indexed against.
C10_FitMatchesSeries ==
    page.last_run # None =>
        page.last_run[1].fit = FitOf(page.last_run[1].stock_data, page.last_run[1].degree)

(***************************************************************************)
(* DcaSimulator: the budget, the order of the day's steps, and each step.  *)
(***************************************************************************)
\* days of the series on which a purchase was made
BuyDays == sim.daily_buy_count + sim.zone_buy_count

\* C11: at the end of a simulation total_invested equals total_budget times
\* the fraction of simulated days on which a purchase was made, within one
\* dollar, and the cumulative invested amount of every snapshot never exceeds
\* the total budget entered as the amount to invest over the period.
C11_InvestedWithinBudget ==
    SimRunning =>
        /\ \A k \in 1..Len(sim.portfolio_history) :
              sim.portfolio_history[k].total_invested <= sim.total_budget
        /\ sim.pc = "returned" =>
              Abs(sim.result.total_invested * sim.n - sim.total_budget * BuyDays)
                  <= FixedPoint * sim.n

(***************************************************************************)
(* The backtest of the page: st.session_state.active_tp_zones is set by    *)
(* the "Active TP Zones" multiselect, then run_dca_simulation is called    *)
(* with the series, bands, budget, horizon, asset type, dividend info and  *)
(* baseline (lines 2256-2264).  The session state is not among the         *)
(* arguments and run_dca_simulation does not read it.                      *)
(***************************************************************************)
\* selections of the multiselect over options [1, 2, 3, 4]
ActiveZoneChoices == { {}, {1}, {3, 4}, 1..NumBands }

\* the backtests of short series of an asset without dividends
BacktestArgs == { a \in SimArgs : a.quiet_days = 0 /\ a.n >= 1 /\ a.asset_type = "Crypto" }

BacktestInit ==
    /\ page \in { [pc |-> "backtest", active_tp_zones |-> z] : z \in ActiveZoneChoices }
    /\ sim \in BacktestArgs
    /\ fitter = Idle
    /\ opt = Idle

SpecBacktest == BacktestInit /\ [][SimNext]_vars

\* C12: only the take-profit zones selected as active trigger sells: a
\* sell-all of the backtest is recorded only with an exit level that is in
\* active_tp_zones, and when no zone is selected no sell-all ever occurs.
C12_SellsOnlyAtActiveZones ==
    SimRunning =>
        /\ \A k \in SellTrades : sim.trades[k].level \in page.active_tp_zones
        /\ page.active_tp_zones = {} => sim.sell_count = 0

(***************************************************************************)
(* One run of app() from the fetch to the backtest (lines 1918-2264), by   *)
(* the length of the fetched series: which engine operations it performs,  *)
(* and on how many rows.  The buttons and the session flags are the run's  *)
(* inputs.                                                                 *)
(***************************************************************************)
\* "months_6_diff = ... stock_data['Close'].iloc[-132]": the longest lookback
LongestLookback == 132

\* "trading_days_needed = int(252 * investment_years)"
TradingDaysPerYear == 252

\* "Investment Period (Years)", min_value=1.0
MinYears == 1

\* lengths of the fetched series: empty, one short of each threshold, at it,
\* and longer than one year of trading days
RowCounts == { 0, 1, MinObservations - 1, MinObservations, LongestLookback - 1,
               LongestLookback, TradingDaysPerYear * MinYears + 1 }

\* "if len(stock_data) < 30:"
InsufficientDataOffByOne(rows) == rows < MinObservations - 1

InsufficientData(rows) == rows < MinObservations

\* "if len(stock_data) > trading_days_needed: sim_stock_data = stock_data.iloc[-trading_days_needed:]"
SimRows(rows, investment_years) ==
    LET trading_days_needed == TradingDaysPerYear * investment_years
    IN  IF rows > trading_days_needed THEN trading_days_needed ELSE rows

\* an engine operation performed on a series of `rows` rows
Performed(pg, operation, rows) ==
    [pg EXCEPT !.performed = @ \cup { [operation |-> operation, rows |-> rows] }]

RequestInit ==
    /\ page \in [ pc : {"fetch"}, rows : RowCounts, investment_years : {MinYears},
                  run_optimization : BOOLEAN, apply_optimal : BOOLEAN, run_sim : BOOLEAN,
                  optimization_results : BOOLEAN, run_sim_after_apply : BOOLEAN,
                  refused : {FALSE}, performed : {{}} ]
    /\ fitter = Idle
    /\ sim = Idle
    /\ opt = Idle

\* "stock_data = get_stock_data(symbol)" and "if stock_data is not None:":
\* an empty history is reported and returned as None, and the run renders
\* nothing more
RunFetch ==
    /\ page.pc = "fetch"
    /\ page' = [page EXCEPT !.pc = IF page.rows = 0 THEN "done" ELSE "guard",
                            !.refused = (page.rows = 0)]
    /\ UNCHANGED <<fitter, sim, opt>>

\* lines 1927-1929: st.error(...) and return
RunGuard ==
    /\ page.pc = "guard"
    /\ page' = IF InsufficientData(page.rows)
               THEN [page EXCEPT !.pc = "done", !.refused = TRUE]
               ELSE [page EXCEPT !.pc = "optimize"]
    /\ UNCHANGED <<fitter, sim, opt>>

\* lines 1943-1970: the optimization request, each candidate fitted to the
\* whole series and simulated on its last trading_days_needed rows; then
\* "Apply Optimal Intensity", which sets run_sim_after_apply and reruns
RunOptimize ==
    /\ page.pc = "optimize"
    /\ LET optimized ==
               IF page.run_optimization
               THEN [Performed(Performed(Performed(page, "optimize", page.rows),
                                         "fit", page.rows),
                               "simulate", SimRows(page.rows, page.investment_years))
                        EXCEPT !.optimization_results = TRUE]
               ELSE page
       IN  page' = IF optimized.optimization_results /\ page.apply_optimal
                   THEN [optimized EXCEPT !.pc = "fetch", !.run_sim_after_apply = TRUE,
                                          !.run_optimization = FALSE,
                                          !.apply_optimal = FALSE, !.run_sim = FALSE]
                   ELSE [optimized EXCEPT !.pc = "differences"]
    /\ UNCHANGED <<fitter, sim, opt>>

\* line 1986, calculate_price_differences: .iloc[-132] is out of bounds on a
\* series shorter than 132 rows
RunPriceDifferences ==
    /\ page.pc = "differences"
    /\ page' = IF InsufficientData(page.rows) THEN [page EXCEPT !.pc = "done", !.refused = TRUE]
               ELSE IF page.rows < LongestLookback
                    THEN [page EXCEPT !.pc = "raised"]
                    ELSE [page EXCEPT !.pc = "classify"]
    /\ UNCHANGED <<fitter, sim, opt>>

\* lines 2036-2037: the fit and analyze_market_position
RunClassify ==
    /\ page.pc = "classify"
    /\ page' = [Performed(Performed(page, "fit", page.rows), "classify", page.rows)
                   EXCEPT !.pc = "chart"]
    /\ UNCHANGED <<fitter, sim, opt>>

\* line 2159: the fit the chart draws
RunChart ==
    /\ page.pc = "chart"
    /\ page' = [Performed(page, "fit", page.rows) EXCEPT !.pc = "backtest"]
    /\ UNCHANGED <<fitter, sim, opt>>

\* lines 2237-2264: the backtest, on the button or after applying the optimum
RunBacktest ==
    /\ page.pc = "backtest"
    /\ LET should_run_sim == page.run_sim \/ page.run_sim_after_apply
           cleared == [page EXCEPT !.run_sim_after_apply = FALSE, !.pc = "done"]
       IN  page' = IF should_run_sim
                   THEN Performed(cleared, "simulate", SimRows(page.rows, page.investment_years))
                   ELSE cleared
    /\ UNCHANGED <<fitter, sim, opt>>

RequestNext ==
    RunFetch \/ RunGuard \/ RunOptimize \/ RunPriceDifferences \/ RunClassify
        \/ RunChart \/ RunBacktest

SpecRequest == RequestInit /\ [][RequestNext]_vars

\* C13: no fit, classification, simulation or optimization is performed on a
\* series of fewer than 30 observations: on every path to the engine,
\* the optimizer's and the run-after-apply path included, the request is
\* refused without raising and without partial results.
C13_ShortSeriesRefused ==
    /\ \A e \in page.performed : e.rows >= MinObservations
    /\ page.rows < MinObservations =>
          /\ page.pc # "raised"
          /\ page.performed = {}
          /\ page.pc = "done" => page.refused

\* a 29-row series refused although an optimization, a backtest and a
\* run-after-apply were all requested
C13_Witness ==
    /\ page.pc = "done"
    /\ page.rows = MinObservations - 1
    /\ page.run_optimization /\ page.run_sim /\ page.run_sim_after_apply
    /\ page.refused

\* a step of the loop: row `Today` is processed
DayStep == sim.pc = "loop" /\ sim'.pc = "loop" /\ Len(sim'.stock_data) = Len(sim.stock_data) + 1

Today == Len(sim.stock_data)

SoldToday == sim'.sell_count > sim.sell_count

\* the shares held after the day's take-profit check
SharesAfterTakeProfit == IF SoldToday THEN 0 ELSE sim.total_shares

AnnualRate == IF sim.dividend_info = None THEN 0 ELSE sim.dividend_info[1].dividend_rate

\* the day's steps ran as take-profit, dividend, buy, snapshot
DayInOrder ==
    /\ \A k \in 1..Len(sim'.position_history) :
          sim'.position_history[k].sell_date # None =>
              sim'.position_history[k].sell_date[1] > sim'.position_history[k].buy_date
    /\ \A j, k \in 1..Len(sim'.trades) :
          (j < k /\ sim'.trades[j].date = sim'.trades[k].date) =>
              sim'.trades[j].type = "SELL" /\ sim'.trades[k].type # "SELL"
    /\ sim'.dividend_income # sim.dividend_income =>
          sim'.dividend_income - sim.dividend_income =
              (AnnualRate * SharesAfterTakeProfit) \div 4
    /\ sim'.portfolio_history[Len(sim'.portfolio_history)].shares = sim'.total_shares
    /\ sim'.portfolio_history[Len(sim'.portfolio_history)].total_invested = sim'.total_invested

\* C14: on every simulated day the steps run in the order take-profit check,
\* dividend accrual, buy decision, snapshot: a lot bought on day i is never
\* sold on day i (a closed Position's sell day is strictly after its buy
\* day), a sell-all may be followed by a buy on the same day but never the
\* reverse, and a dividend paid on day i is computed on the shares held
\* before that day's purchase.
C14_StepOrder == [][DayStep => DayInOrder]_vars

\* a run with a sell-all followed by a buy on one day, and a dividend paid on
\* a day that also buys
C14_Witness ==
    /\ sim.pc = "returned"
    /\ sim.dividend_income > 0
    /\ \E k \in 1..Len(sim.trades) :
          sim.trades[k].date = DividendPeriod /\ sim.trades[k].type # "SELL"
    /\ \E j, k \in 1..Len(sim.trades) :
          /\ j < k /\ sim.trades[j].date = sim.trades[k].date
          /\ sim.trades[j].type = "SELL" /\ sim.trades[k].type # "SELL"

\* band level L qualifies for a take-profit on day i of the series `data`:
\* yesterday's high below yesterday's upper band, today's high or close at
\* or above today's
TpQualifies(s, data, level, i) ==
    /\ data[i].High < s.regression + level * s.band_step
    /\ \/ data[i + 1].High >= s.regression + level * s.band_step
       \/ data[i + 1].Close >= s.regression + level * s.band_step

QualifyingLevels == { level \in 1..NumBands : TpQualifies(sim, sim'.stock_data, level, Today) }

\* the trades the day's step appended
TodaysTrades == SubSeq(sim'.trades, Len(sim.trades) + 1, Len(sim'.trades))

SellAllRule ==
    /\ sim'.sell_count - sim.sell_count \in {0, 1}
    /\ SoldToday <=> (Today > 0 /\ sim.total_shares > 0 /\ QualifyingLevels # {})
    /\ SoldToday =>
          /\ sim'.cash_from_sales =
                sim.cash_from_sales + sim.total_shares * sim'.stock_data[Today + 1].Close
          /\ TodaysTrades # << >>
          /\ TodaysTrades[1].type = "SELL"
          /\ TodaysTrades[1].shares = sim.total_shares
          /\ TodaysTrades[1].price = sim'.stock_data[Today + 1].Close
          /\ TodaysTrades[1].level \in QualifyingLevels
          /\ \A level \in QualifyingLevels : TodaysTrades[1].level <= level
          /\ sim'.total_shares =
                IF Len(TodaysTrades) > 1 THEN TodaysTrades[2].shares ELSE 0
    /\ ~SoldToday =>
          /\ sim'.cash_from_sales = sim.cash_from_sales
          /\ \A k \in 1..Len(TodaysTrades) : TodaysTrades[k].type # "SELL"

CrossesLowerBand(s, data, i, level) ==
    LET zone == s.regression - level * s.band_step
    IN  /\ i >= 1
        /\ data[i].High > zone
        /\ data[i].Low <= zone
        /\ data[i + 1].Low > zone
        /\ data[i + 1].High > zone

\* the levels of the zone-buy signals dated today
SignalLevelsToday ==
    { level \in 1..NumBands : CrossesLowerBand(sim, sim'.stock_data, Today, level) }

\* the buy trades and the positions the day's step appended
TodaysBuys == SelectSeq(TodaysTrades, LAMBDA t : t.type # "SELL")

TodaysPositions ==
    SubSeq(sim'.position_history, Len(sim.position_history) + 1, Len(sim'.position_history))

\* one purchase of `amount` was made today, recorded with level and types
BoughtOnce(amount, levels, buy_type, trade_type) ==
    /\ Len(TodaysBuys) = 1 /\ Len(TodaysPositions) = 1
    /\ sim'.total_invested = sim.total_invested + amount
    /\ TodaysBuys[1].amount = amount
    /\ TodaysBuys[1].type = trade_type
    /\ TodaysBuys[1].level \in levels
    /\ TodaysPositions[1].amount_invested = amount
    /\ TodaysPositions[1].buy_type = buy_type
    /\ TodaysPositions[1].buy_level = TodaysBuys[1].level
    /\ TodaysPositions[1].buy_date = Today
    /\ TodaysPositions[1].sell_date = None

BuyRule ==
    LET signals == SignalLevelsToday
    IN  IF signals # {}
        THEN /\ BoughtOnce(ZoneMultiplier * sim.daily_dca_amount,
                           signals, "5X Zone", "BUY 5X")
             /\ sim'.zone_buy_count = sim.zone_buy_count + 1
             /\ sim'.daily_buy_count = sim.daily_buy_count
        ELSE IF sim'.stock_data[Today + 1].Close < sim.regression
             THEN /\ BoughtOnce(sim.daily_dca_amount, {0}, "Daily DCA", "BUY Daily")
                  /\ sim'.daily_buy_count = sim.daily_buy_count + 1
                  /\ sim'.zone_buy_count = sim.zone_buy_count
             ELSE /\ TodaysBuys = << >> /\ TodaysPositions = << >>
                  /\ sim'.total_invested = sim.total_invested
                  /\ sim'.daily_buy_count = sim.daily_buy_count
                  /\ sim'.zone_buy_count = sim.zone_buy_count

\* C16: on each simulated day exactly one of three buy outcomes happens: on
\* the date of a detected zone-buy signal 5 x dailyDcaAmount is invested in
\* a zone-multiplier Position at the signal's band level; otherwise, with the
\* close strictly below the baseline, exactly dailyDcaAmount is invested in a
\* daily Position of level 0; otherwise nothing is bought.  A zone-buy day
\* never also makes a daily buy.
C16_BuyOutcomes == [][DayStep => BuyRule]_vars

\* a run with a zone buy on a day that closes below the baseline, a daily buy
\* and a day without purchase
C16_Witness ==
    /\ sim.pc = "returned"
    /\ sim.n = MaxDays
    /\ sim.result.daily_buy_count = 1
    /\ sim.result.zone_buy_count = 1
    /\ \E k \in 1..Len(sim.trades) :
          /\ sim.trades[k].type = "BUY 5X"
          /\ sim.stock_data[sim.trades[k].date + 1].Close < sim.regression

(***************************************************************************)
(* SignalClassifier: analyze_market_position(current_price,                *)
(* regression_values, bands, stock_data), called by the page on the latest *)
(* close with the fit of the series; the active take-profit zones come     *)
(* from st.session_state.  Prices are whole dollars; the bands are the     *)
(* fitter's, regression -/+ level * band_step at the last time step.  Of   *)
(* the history the classifier reads the close five rows from the end, and  *)
(* the highest high and lowest low of the lookback.                        *)
(***************************************************************************)
\* the price moves up to this many dollars away from the baseline
MaxPriceOffset == 5

\* regression_values[-1]
CurrentRegressions == {10}

\* the closes before the latest one differ from it by at most a dollar
CloseMoves == {-1, 0, 1}

\* the classifier's arguments and the session state it reads
ClassifierArgs ==
    { [pc |-> "called", current_price |-> r + d, current_regression |-> r,
       band_step |-> st, active_tp_zones |-> z,
       closes |-> << r + d + m6, r + d + m5, r + d, r + d, r + d, r + d >>] :
      r \in CurrentRegressions, d \in (0 - MaxPriceOffset)..MaxPriceOffset, st \in {0, 1},
      z \in SUBSET (1..NumBands), m6 \in CloseMoves, m5 \in CloseMoves }

\* lower_band[-1] and upper_band[-1] of a level
LastLower(a, level) == a.current_regression - level * a.band_step

LastUpper(a, level) == a.current_regression + level * a.band_step

\* "Check if there's a higher active zone": the first active level above
\* `level`, or the value next_zone_level had
HigherActive(a, level, next_zone_level) ==
    LET higher == { h \in (level + 1)..NumBands : h \in a.active_tp_zones }
    IN  IF higher = {} THEN next_zone_level
        ELSE Some(CHOOSE h \in higher : \A other \in higher : h <= other)

\* a scan that goes on past a buy zone to the deepest one, naming the next
RECURSIVE ZoneScanDeepest(_, _, _)
ZoneScanDeepest(a, level, z) ==
    IF level > NumBands THEN z
    ELSE IF a.current_price < LastLower(a, level)
         THEN ZoneScanDeepest(a, level + 1,
                              [current_zone_level |-> Some(level), zone_type |-> Some("buy"),
                               next_zone_level |->
                                   IF level < NumBands THEN Some(level + 1) ELSE None])
         ELSE IF a.current_price > LastUpper(a, level) /\ level \in a.active_tp_zones
              THEN ZoneScanDeepest(a, level + 1,
                                   [current_zone_level |-> Some(level),
                                    zone_type |-> Some("sell"),
                                    next_zone_level |->
                                        HigherActive(a, level, z.next_zone_level)])
              ELSE ZoneScanDeepest(a, level + 1, z)

\* the scan of the bands from level on (lines 685-700): a buy zone ends the
\* scan, a sell zone does not
RECURSIVE ZoneScan(_, _, _)
ZoneScan(a, level, z) ==
    IF level > NumBands THEN z
    ELSE IF a.current_price < LastLower(a, level)
         THEN [z EXCEPT !.current_zone_level = Some(level), !.zone_type = Some("buy")]
         ELSE IF a.current_price > LastUpper(a, level)
              THEN IF level \in a.active_tp_zones
                   THEN ZoneScan(a, level + 1,
                                 [current_zone_level |-> Some(level),
                                  zone_type |-> Some("sell"),
                                  next_zone_level |->
                                      HigherActive(a, level, z.next_zone_level)])
                   ELSE ZoneScan(a, level + 1, z)
              ELSE ZoneScan(a, level + 1, z)

\* "price_5d_ago = recent_prices.iloc[0] if len(recent_prices) >= 5 else
\* current_price", recent_prices being stock_data['Close'].iloc[-5:]
Price5dAgo(a) ==
    IF Len(a.closes) >= 5 THEN a.closes[Len(a.closes) - 4] ELSE a.current_price

\* price_momentum > 2 and price_momentum < -2, price_momentum being
\* (current_price - price_5d_ago) / price_5d_ago * 100
IsPushingHigher(a) == (a.current_price - Price5dAgo(a)) * 100 > 2 * Price5dAgo(a)

IsRejecting(a) == (a.current_price - Price5dAgo(a)) * 100 < (0 - 2) * Price5dAgo(a)

\* the decision table (lines 714-792)
SignalHoldFirst(a, z) ==
    LET is_above_regression == a.current_price > a.current_regression
        is_below_regression == a.current_price < a.current_regression
    IN  IF is_above_regression THEN "WAIT (HOLD)"
        ELSE IF z.zone_type = Some("sell") /\ is_above_regression THEN "SELL NOW"
        ELSE IF z.zone_type = Some("buy") /\ is_below_regression THEN "BUY NOW"
        ELSE IF is_below_regression /\ z.zone_type = None THEN "WAIT (MONITOR)"
        ELSE "NEUTRAL"

Signal(a, z) ==
    LET is_above_regression == a.current_price > a.current_regression
        is_below_regression == a.current_price < a.current_regression
    IN  IF z.zone_type = Some("sell") /\ is_above_regression THEN "SELL NOW"
        ELSE IF z.zone_type = Some("buy") /\ is_below_regression THEN "BUY NOW"
        ELSE IF is_above_regression /\ z.zone_type = None THEN "WAIT (HOLD)"
        ELSE IF is_below_regression /\ z.zone_type = None THEN "WAIT (MONITOR)"
        ELSE "NEUTRAL"

\* the price-action sentence of the description (lines 720-728, 754-762)
PriceActionContext(a, z, signal) ==
    IF signal = "SELL NOW"
    THEN IF IsPushingHigher(a) /\ z.next_zone_level # None THEN "pushing toward next zone"
         ELSE IF IsPushingHigher(a) THEN "may extend higher"
         ELSE IF IsRejecting(a) THEN "rejecting"
         ELSE "consolidating"
    ELSE IF signal = "BUY NOW"
    THEN IF IsRejecting(a) /\ z.next_zone_level # None THEN "may drop to next zone"
         ELSE IF IsRejecting(a) THEN "declining"
         ELSE IF IsPushingHigher(a) THEN "bouncing"
         ELSE "stabilizing"
    ELSE "none"

AnalyzeMarketPosition(a) ==
    LET z == ZoneScan(a, 1, [current_zone_level |-> None, zone_type |-> None,
                             next_zone_level |-> None])
        signal == Signal(a, z)
    IN  [signal |-> signal, current_zone_level |-> z.current_zone_level,
         zone_type |-> z.zone_type, next_zone_level |-> z.next_zone_level,
         is_pushing_higher |-> IsPushingHigher(a), is_rejecting |-> IsRejecting(a),
         price_action_context |-> PriceActionContext(a, z, signal)]

ClassifyInit ==
    /\ page \in ClassifierArgs
    /\ fitter = Idle
    /\ sim = Idle
    /\ opt = Idle

Classify ==
    /\ page.pc = "called"
    /\ page' = [pc |-> "returned", out |-> AnalyzeMarketPosition(page)] @@ page
    /\ UNCHANGED <<fitter, sim, opt>>

ClassifyNext == Classify

SpecClassify == ClassifyInit /\ [][ClassifyNext]_vars

Classified == page.pc = "returned"

\* the active levels whose upper value the price exceeds, and the levels
\* whose lower value exceeds the price
SellLevels == { level \in page.active_tp_zones :
                  page.current_price > page.current_regression + level * page.band_step }

BuyLevels == { level \in 1..NumBands :
                 page.current_price < page.current_regression - level * page.band_step }

Lowest(S) == CHOOSE x \in S : \A y \in S : x <= y

\* C17: the current sell zone is the first (lowest-numbered) active band
\* whose upper value at the last time step the price exceeds, and
\* next_zone_level is the next higher active level, if any, for every
\* active-zone subset, also when the price exceeds several active bands.
C17_FirstActiveSellZone ==
    (Classified /\ SellLevels # {}) =>
        /\ page.out.zone_type = Some("sell")
        /\ page.out.current_zone_level = Some(Lowest(SellLevels))
        /\ LET above == { h \in page.active_tp_zones : h > Lowest(SellLevels) }
           IN  page.out.next_zone_level = IF above = {} THEN None ELSE Some(Lowest(above))

Signals == { "SELL NOW", "BUY NOW", "WAIT (HOLD)", "WAIT (MONITOR)", "NEUTRAL" }

\* the row of the decision table that matches first
FirstMatchingRow ==
    LET above == page.current_price > page.current_regression
        below == page.current_price < page.current_regression
    IN  IF SellLevels # {} /\ above THEN "SELL NOW"
        ELSE IF BuyLevels # {} /\ below THEN "BUY NOW"
        ELSE IF above /\ SellLevels = {} /\ BuyLevels = {} THEN "WAIT (HOLD)"
        ELSE IF below /\ SellLevels = {} /\ BuyLevels = {} THEN "WAIT (MONITOR)"
        ELSE "NEUTRAL"

\* C18: analyze_market_position returns exactly one of SELL, BUY, WAIT(HOLD),
\* WAIT(MONITOR), NEUTRAL, the one of the first matching row of: sell zone and
\* price above the baseline; buy zone and price below it; price above and no
\* zone; price below and no zone; otherwise NEUTRAL.  A buy zone and a sell
\* zone are never both detected for one price, and NEUTRAL is returned only
\* when no zone is detected.
C18_DecisionTable ==
    Classified =>
        /\ page.out.signal \in Signals
        /\ page.out.signal = FirstMatchingRow
        /\ ~(SellLevels # {} /\ BuyLevels # {})
        /\ page.out.zone_type = Some("sell") <=> SellLevels # {}
        /\ page.out.zone_type = Some("buy") <=> BuyLevels # {}
        /\ page.out.signal = "NEUTRAL" =>
              /\ page.out.zone_type = None
              /\ page.out.current_zone_level = None
              /\ page.current_price = page.current_regression

\* a price above the upper value of an inactive band and of an active one:
\* a sell zone, classified SELL
C18_Witness ==
    /\ Classified
    /\ page.band_step > 0
    /\ page.active_tp_zones = {2}
    /\ page.current_price > page.current_regression + 2 * page.band_step
    /\ page.out.signal = "SELL NOW"

\* the dividend is due on the day being processed
DividendDue ==
    /\ sim.asset_type = "Stock"
    /\ sim.dividend_info # None
    /\ sim.dividend_info[1].pays_dividend
    /\ Today > 0
    /\ Today % DividendPeriod = 0
    /\ SharesAfterTakeProfit > 0

DividendRule ==
    LET close == sim'.stock_data[Today + 1].Close
        payment == IF DividendDue THEN (AnnualRate * SharesAfterTakeProfit) \div 4 ELSE 0
        bought == IF TodaysBuys = << >> THEN 0 ELSE TodaysBuys[1].shares
        spent == IF TodaysBuys = << >> THEN 0 ELSE TodaysBuys[1].amount
    IN  /\ sim'.dividend_income = sim.dividend_income + payment
        /\ sim'.dividend_shares_bought = sim.dividend_shares_bought + payment \div close
        /\ sim'.total_shares = SharesAfterTakeProfit + payment \div close + bought
        /\ sim'.total_invested = sim.total_invested + spent
        /\ sim'.cash_from_sales =
              sim.cash_from_sales + (IF SoldToday THEN sim.total_shares * close ELSE 0)
        /\ Len(TodaysPositions) = Len(TodaysBuys)
        /\ ~SoldToday =>
              SubSeq(sim'.position_history, 1, Len(sim.position_history)) = sim.position_history
        /\ SoldToday => ~DividendDue

\* C20: a dividend is paid on day i exactly when the asset is a stock that
\* pays dividends, i > 0, i % 90 = 0 and shares are held after that day's
\* take-profit check; the payment, annualRate/4 times the shares held, is
\* converted to shares at that day's close and increases total_shares and
\* dividend_shares_bought by the same amount; it changes neither
\* total_invested nor realized cash nor any Position, and no dividend is paid
\* on a day with a sell-all.
C20_DividendRule == [][DayStep => DividendRule]_vars

\* a dividend paid and reinvested on day 90, a day that also buys
C20_Witness ==
    /\ SimRunning
    /\ Len(sim.stock_data) = DividendPeriod + 1
    /\ sim.dividend_income > 0
    /\ sim.dividend_shares_bought > 0
    /\ sim.trades[Len(sim.trades)].date = DividendPeriod

(***************************************************************************)
(* ZoneCrossingDetector: detect_buy_signals(stock_data, bands) on its own, *)
(* applied to every short series of bars.                                  *)
(***************************************************************************)
DetectArgs ==
    { [pc |-> "called", stock_data |-> data, regression |-> bc.regression,
       band_step |-> bc.band_step] :
      data \in UNION { SeqsOfLen(Bars, n) : n \in 0..MaxDays }, bc \in BaselineCases }

DetectInit ==
    /\ sim \in DetectArgs
    /\ fitter = Idle
    /\ opt = Idle
    /\ page = Idle

DetectReturn ==
    /\ sim.pc = "called"
    /\ sim' = [pc |-> "returned", buy_signals |-> DetectBuySignals(sim, sim.stock_data)] @@ sim
    /\ UNCHANGED <<fitter, opt, page>>

DetectNext == DetectReturn

SpecDetect == DetectInit /\ [][DetectNext]_vars

\* day i (0-based) and band level L meet the crossing rule
Crossing(i, level) == CrossesLowerBand(sim, sim.stock_data, i, level)

\* C19: detect_buy_signals emits an event for day i >= 1 and band level L if
\* and only if yesterday's high is above and yesterday's low at or below
\* yesterday's lower band L, and today's low and high are both above today's;
\* the first day has no event, every matching level of a day has its own
\* event, and the events are in ascending day, then ascending level order.
C19_BuySignalEvents ==
    sim.pc = "returned" =>
        LET buy_signals == sim.buy_signals
            events == { << buy_signals[k].date, buy_signals[k].zone_level >> :
                          k \in 1..Len(buy_signals) }
        IN  /\ \A i \in 0..(Len(sim.stock_data) - 1), level \in 1..NumBands :
                  Crossing(i, level) <=> << i, level >> \in events
            /\ \A k \in 1..Len(buy_signals) :
                  /\ buy_signals[k].date >= 1
                  /\ buy_signals[k].price = sim.stock_data[buy_signals[k].date + 1].Close
                  /\ buy_signals[k].zone_price =
                        sim.regression - buy_signals[k].zone_level * sim.band_step
            /\ \A j, k \in 1..Len(buy_signals) :
                  j < k =>
                      \/ buy_signals[j].date < buy_signals[k].date
                      \/ /\ buy_signals[j].date = buy_signals[k].date
                         /\ buy_signals[j].zone_level < buy_signals[k].zone_level

\* two levels crossed on the last day of a series, none on the days before
C19_Witness ==
    /\ sim.pc = "returned"
    /\ Len(sim.stock_data) = MaxDays
    /\ Len(sim.buy_signals) = 2
    /\ sim.buy_signals[1].date = MaxDays - 1
    /\ sim.buy_signals[2].date = MaxDays - 1
    /\ sim.buy_signals[1].zone_level < sim.buy_signals[2].zone_level

(***************************************************************************)
(* IntensityOptimizer: the body of one candidate's try block (lines        *)
(* 1218-1251): the fit on the whole series, the truncation to the          *)
(* investment period, and the simulation call.  A row of the series is its *)
(* date; a value of the fitted baseline or of a band is the row it was     *)
(* evaluated at (np.polyval over the x of the series returns one value per *)
(* row, in row order).  investment_years is a float of step 0.5, kept as a *)
(* number of half years.                                                   *)
(***************************************************************************)

\* lengths of the series around int(252 * investment_years) for 1, 1.5 and 2 years
SeriesRowCounts ==
    { MinObservations, 251, 252, 253, 254, 377, 378, 379, 380, 503, 504, 505, 506 }

\* "Investment Period (Years)", min_value=1.0, step=0.5: 1.0, 1.5, 2.0
HalfYearChoices == { 2 * MinYears, 2 * MinYears + 1, 2 * MinYears + 2 }

\* "stock_data": one row per trading day, in date order
StockData(rows) == [j \in 1..rows |-> [date |-> j]]

\* "regression_values, bands, actual_degree = calculate_regression_curve(...)":
\* the baseline and, per level, the lower and upper band, each one value per row
FittedCurves(stock_data) ==
    [ regression_values |-> [j \in 1..Len(stock_data) |-> [row |-> stock_data[j].date]],
      bands |-> [level \in 1..NumBands |->
                   [ lower |-> [j \in 1..Len(stock_data) |->
                                  [row |-> stock_data[j].date, level |-> level]],
                     upper |-> [j \in 1..Len(stock_data) |->
                                  [row |-> stock_data[j].date, level |-> level]] ]] ]

\* "trading_days_needed = int(252 * investment_years)"
TradingDaysNeeded(half_years) == (TradingDaysPerYear * half_years) \div 2

\* seq[:n] in place of seq[-n:]
FirstRows(seq, n) ==
    IF n >= Len(seq) THEN seq ELSE SubSeq(seq, 1, n)

\* seq[-n:] of Python: the last n elements, the whole sequence when n = 0
\* or n >= len(seq)
LastRows(seq, n) ==
    IF n = 0 \/ n >= Len(seq) THEN seq ELSE SubSeq(seq, Len(seq) - n + 1, Len(seq))

\* lines 1231-1240
LimitToInvestmentPeriod(stock_data, fit, half_years) ==
    LET trading_days_needed == TradingDaysNeeded(half_years)
    IN  IF Len(stock_data) > trading_days_needed
        THEN [ sim_stock_data |-> LastRows(stock_data, trading_days_needed),
               sim_regression |-> LastRows(fit.regression_values, trading_days_needed),
               sim_bands |-> [level \in 1..NumBands |->
                                [ lower |-> LastRows(fit.bands[level].lower, trading_days_needed),
                                  upper |-> LastRows(fit.bands[level].upper, trading_days_needed) ]] ]
        ELSE [ sim_stock_data |-> stock_data,
               sim_regression |-> fit.regression_values,
               sim_bands |-> fit.bands ]

CandidateInit ==
    /\ opt \in [ pc : {"fit"}, rows : SeriesRowCounts, half_years : HalfYearChoices,
                 use_original_method : BOOLEAN, fitted_rows : {0},
                 sim_stock_data : {<< >>}, sim_regression : {<< >>},
                 sim_bands : {<< >>} ]
    /\ fitter = Idle
    /\ sim = Idle
    /\ page = Idle

\* lines 1220-1228: the fit, on x_values and y_values of the whole stock_data
CandidateFit ==
    /\ opt.pc = "fit"
    /\ opt' = [opt EXCEPT !.pc = "limit", !.fitted_rows = Len(StockData(opt.rows))]
    /\ UNCHANGED <<fitter, sim, page>>

\* lines 1230-1240
CandidateLimit ==
    /\ opt.pc = "limit"
    /\ LET stock_data == StockData(opt.rows)
           limited == LimitToInvestmentPeriod(stock_data, FittedCurves(stock_data),
                                              opt.half_years)
       IN  opt' = [opt EXCEPT !.pc = "simulate",
                              !.sim_stock_data = limited.sim_stock_data,
                              !.sim_regression = limited.sim_regression,
                              !.sim_bands = limited.sim_bands]
    /\ UNCHANGED <<fitter, sim, page>>

\* lines 1242-1251: run_dca_simulation(sim_stock_data, sim_bands, ..., sim_regression)
CandidateSimulate ==
    /\ opt.pc = "simulate"
    /\ opt' = [opt EXCEPT !.pc = "simulated"]
    /\ UNCHANGED <<fitter, sim, page>>

CandidateNext == CandidateFit \/ CandidateLimit \/ CandidateSimulate

SpecCandidate == CandidateInit /\ [][CandidateNext]_vars

\* C21: each candidate is fitted on the full series and simulated on exactly
\* the last int(252 * horizonYears) rows when the series is longer than that
\* (on the full series otherwise); the baseline and every band are cut to
\* the same rows, so index i of series, baseline and bands is the same day.
C21_TruncatedAligned ==
    opt.pc \in {"simulate", "simulated"} =>
        LET needed == TradingDaysNeeded(opt.half_years)
            kept == IF opt.rows > needed THEN needed ELSE opt.rows
        IN  /\ opt.fitted_rows = opt.rows
            /\ Len(opt.sim_stock_data) = kept
            /\ \A i \in 1..kept : opt.sim_stock_data[i].date = opt.rows - kept + i
            /\ Len(opt.sim_regression) = kept
            /\ \A level \in 1..NumBands :
                  /\ Len(opt.sim_bands[level].lower) = kept
                  /\ Len(opt.sim_bands[level].upper) = kept
            /\ \A i \in 1..kept :
                  /\ opt.sim_regression[i].row = opt.sim_stock_data[i].date
                  /\ \A level \in 1..NumBands :
                        /\ opt.sim_bands[level].lower[i].row = opt.sim_stock_data[i].date
                        /\ opt.sim_bands[level].upper[i].row = opt.sim_stock_data[i].date

\* a series one row longer than a horizon of a year and a half, cut to 378 rows
C21_Witness ==
    /\ opt.pc = "simulated"
    /\ opt.half_years = 3
    /\ opt.rows = 379
    /\ Len(opt.sim_stock_data) = 378
    /\ opt.sim_stock_data[1].date = 2
    /\ opt.sim_bands[NumBands].upper[1].row = 2

(***************************************************************************)
(* DcaSimulator on short series of an asset without dividends: every row   *)
(* is free, so every crossing pattern of MaxDays bars occurs.              *)
(***************************************************************************)
ShortRunArgs == { a \in SimArgs : a.quiet_days = 0 /\ a.asset_type = "Crypto" }

ShortRunInit ==
    /\ sim \in ShortRunArgs
    /\ fitter = Idle
    /\ opt = Idle
    /\ page = Idle

SpecShortRuns == ShortRunInit /\ [][SimNext]_vars

\* the levels whose upper band at the last time step exceeds the last close
LevelsAboveLastClose ==
    { level \in 1..NumBands :
        sim.regression + level * sim.band_step > sim.stock_data[sim.n].Close }

\* C22: run_dca_simulation returns as next_tp_price the lowest upper-band
\* value at the last time step that is strictly greater than the last close,
\* over all bands, and as next_tp_level the level of that band (the lowest
\* such level when bands coincide); both are None when the last close is at
\* or above every upper band.
C22_NextTpTarget ==
    sim.pc = "returned" =>
        LET above == LevelsAboveLastClose
        IN  IF above = {}
            THEN /\ sim.result.next_tp_level = None
                 /\ sim.result.next_tp_price = None
            ELSE LET best == CHOOSE level \in above :
                                \A other \in above :
                                    \/ UpperBand(sim, level, sim.n - 1)
                                           < UpperBand(sim, other, sim.n - 1)
                                    \/ /\ UpperBand(sim, level, sim.n - 1)
                                              = UpperBand(sim, other, sim.n - 1)
                                       /\ level <= other
                 IN  /\ sim.result.next_tp_level = Some(best)
                     /\ sim.result.next_tp_price = Some(UpperBand(sim, best, sim.n - 1))

\* a run that ends with its close between the upper bands of levels 1 and 2
C22_Witness ==
    /\ sim.pc = "returned"
    /\ sim.band_step > 0
    /\ sim.stock_data[sim.n].Close >= UpperBand(sim, 1, sim.n - 1)
    /\ sim.result.next_tp_level = Some(2)

\* C24: the classifier's 5-day momentum is (current - p) / p with p the close
\* five trading days before the latest observation (the 6th-from-last close
\* of the history); isPushingHigher holds iff the momentum exceeds +2% and
\* isRejecting iff it is below -2%, so at most one of them holds.
C24_MomentumOverFiveDays ==
    Classified =>
        LET p == page.closes[Len(page.closes) - 5]
        IN  /\ page.out.is_pushing_higher <=> (page.current_price - p) * 100 > 2 * p
            /\ page.out.is_rejecting <=> (page.current_price - p) * 100 < (0 - 2) * p
            /\ ~(page.out.is_pushing_higher /\ page.out.is_rejecting)

(***************************************************************************)
(* The usage limit of a free or expired user: check_usage_limit and        *)
(* increment_usage at the head of app(), run by every browser session of   *)
(* the user in its own script thread.  The user file is read whole by      *)
(* load_users and written whole by save_users; a read or a write of the    *)
(* file is one step, and the sessions' steps interleave.  A date is a      *)
(* number of days.                                                         *)
(***************************************************************************)

\* "daily_limit = 3"
DailyLimit == 3

Sessions == {1, 2}

\* the calendar days a behaviour spans
MaxCalendarDays == 2

\* the page loads of one session
MaxPageLoads == 2

\* "if user.get('last_usage_date') != today:" with its two assignments
ResetIfNewDay(user, today) ==
    IF user.last_usage_date # today
    THEN [daily_usage_count |-> 0, last_usage_date |-> today]
    ELSE user

\* st.session_state of a session (lines 257-258) and the position of its run
NewSession ==
    [pc |-> "idle", loads |-> 0, usage_tracked |-> FALSE, chart_limit_reached |-> FALSE,
     found_limit |-> FALSE, user |-> None]

UsageInit ==
    /\ page \in [ pc : {"usage"}, today : {1},
                  user_db : [daily_usage_count : 0..DailyLimit, last_usage_date : {1}],
                  sessions : {[s \in Sessions |-> NewSession]},
                  rendered_when_refused : {FALSE} ]
    /\ fitter = Idle
    /\ sim = Idle
    /\ opt = Idle

InSession(s, pc) == page.pc = "usage" /\ page.sessions[s].pc = pc

\* a rerun of the script starts: line 1571
BeginPageLoad(s) ==
    /\ InSession(s, "idle")
    /\ page.sessions[s].loads < MaxPageLoads
    /\ page' = [page EXCEPT !.sessions[s].loads = @ + 1,
                            !.sessions[s].found_limit = FALSE,
                            !.sessions[s].pc =
                                IF page.sessions[s].usage_tracked THEN "render"
                                ELSE "check_load"]
    /\ UNCHANGED <<fitter, sim, opt>>

\* check_and_update_subscription_status: load_users() and the daily reset
CheckLoad(s) ==
    /\ InSession(s, "check_load")
    /\ page' = [page EXCEPT !.sessions[s].user = Some(ResetIfNewDay(page.user_db, page.today)),
                            !.sessions[s].pc = "check_save"]
    /\ UNCHANGED <<fitter, sim, opt>>

\* its save_users(users), then the comparison of check_usage_limit (lines
\* 150-158) on the user it returned, and lines 1574-1576 when refused
CheckSave(s) ==
    /\ InSession(s, "check_save")
    /\ LET user == page.sessions[s].user[1]
           can_access == ~(user.daily_usage_count >= DailyLimit)
       IN  page' = [page EXCEPT !.user_db = user,
                                !.sessions[s].found_limit = ~can_access,
                                !.sessions[s].chart_limit_reached =
                                    IF can_access THEN @ ELSE TRUE,
                                !.sessions[s].pc =
                                    IF can_access THEN "increment_load" ELSE "render"]
    /\ UNCHANGED <<fitter, sim, opt>>

\* increment_usage: load_users(), the daily reset and the two "+ 1"
IncrementLoad(s) ==
    /\ InSession(s, "increment_load")
    /\ LET user == ResetIfNewDay(page.user_db, page.today)
       IN  page' = [page EXCEPT !.sessions[s].user =
                                    Some([user EXCEPT !.daily_usage_count = @ + 1]),
                                !.sessions[s].pc = "increment_save"]
    /\ UNCHANGED <<fitter, sim, opt>>

\* its save_users(users), then lines 1580-1581
IncrementSave(s) ==
    /\ InSession(s, "increment_save")
    /\ page' = [page EXCEPT !.user_db = page.sessions[s].user[1],
                            !.sessions[s].usage_tracked = TRUE,
                            !.sessions[s].chart_limit_reached = FALSE,
                            !.sessions[s].pc = "render"]
    /\ UNCHANGED <<fitter, sim, opt>>

\* the rest of the run: lines 1918-1922 return before any chart when
\* chart_limit_reached is set, otherwise the charts are drawn
RenderPage(s) ==
    /\ InSession(s, "render")
    /\ LET chart_rendered == ~page.sessions[s].chart_limit_reached
       IN  page' = [page EXCEPT !.rendered_when_refused =
                                    @ \/ (chart_rendered /\ page.sessions[s].found_limit),
                                !.sessions[s].pc = "idle"]
    /\ UNCHANGED <<fitter, sim, opt>>

\* line 1739: a new symbol is typed, "Reset tracking for new chart"
ChangeSymbol(s) ==
    /\ InSession(s, "idle")
    /\ page.sessions[s].usage_tracked
    /\ page' = [page EXCEPT !.sessions[s].usage_tracked = FALSE]
    /\ UNCHANGED <<fitter, sim, opt>>

\* datetime.now() passes midnight
Midnight ==
    /\ page.pc = "usage"
    /\ page.today < MaxCalendarDays
    /\ page' = [page EXCEPT !.today = @ + 1]
    /\ UNCHANGED <<fitter, sim, opt>>

UsageNext ==
    \/ \E s \in Sessions :
          \/ BeginPageLoad(s) \/ CheckLoad(s) \/ CheckSave(s) \/ IncrementLoad(s)
          \/ IncrementSave(s) \/ RenderPage(s) \/ ChangeSymbol(s)
    \/ Midnight

SpecUsage == UsageInit /\ [][UsageNext]_vars

\* C25: a free or expired user gets at most 3 chart views per day: under any
\* interleaving of the page loads of concurrent sessions of the same user,
\* daily_usage_count never exceeds 3 within one calendar day, and no chart is
\* rendered by a page load whose usage check found the limit reached.
C25_AtMostThreeViewsPerDay ==
    page.pc = "usage" =>
        /\ page.user_db.daily_usage_count <= DailyLimit
        /\ ~page.rendered_when_refused

(***************************************************************************)
(* DcaSimulator: the ledger of a run, on the runs of a dividend-paying     *)
(* stock: the short ones, where no dividend day is reached, and the ones   *)
(* that straddle the first dividend day.                                   *)
(***************************************************************************)
DividendStockArgs ==
    { a \in SimArgs : a.dividend_info # None /\ a.dividend_info[1].pays_dividend }

DividendStockInit ==
    /\ sim \in DividendStockArgs
    /\ fitter = Idle
    /\ opt = Idle
    /\ page = Idle

SpecDividendStock == DividendStockInit /\ [][SimNext]_vars

\* what a Position records of its purchase
BuyFields(pos) ==
    [buy_date |-> pos.buy_date, buy_price |-> pos.buy_price, buy_level |-> pos.buy_level,
     buy_type |-> pos.buy_type, shares |-> pos.shares,
     amount_invested |-> pos.amount_invested]

\* the counters, the Positions and the money invested agree
LedgerBalanced ==
    SimRunning =>
        /\ sim.total_invested
               = sim.daily_dca_amount * (sim.daily_buy_count + ZoneMultiplier * sim.zone_buy_count)
        /\ Len(sim.position_history) = sim.daily_buy_count + sim.zone_buy_count
        /\ Sum([k \in 1..Len(sim.position_history) |->
                   sim.position_history[k].amount_invested]) = sim.total_invested

\* a day keeps every Position it found, with its purchase as recorded, and
\* its snapshot shows no less invested and no less realized cash than the
\* snapshot before it
LedgerGrows ==
    LET before == sim.portfolio_history
        after == sim'.portfolio_history
    IN  /\ Len(sim'.position_history) >= Len(sim.position_history)
        /\ \A k \in 1..Len(sim.position_history) :
              BuyFields(sim'.position_history[k]) = BuyFields(sim.position_history[k])
        /\ Len(after) = Len(before) + 1
        /\ after[Len(after)].total_invested = sim'.total_invested
        /\ after[Len(after)].cash = sim'.cash_from_sales
        /\ before # << >> =>
              /\ after[Len(after)].total_invested >= before[Len(before)].total_invested
              /\ after[Len(after)].cash >= before[Len(before)].cash

\* C26: after every simulated day total_invested equals dailyDcaAmount *
\* (daily_buy_count + 5 * zone_buy_count), the number of Positions equals
\* daily_buy_count + zone_buy_count, and the amounts invested of all
\* Positions sum to total_invested; Positions are never removed, and
\* total_invested and realized cash do not decrease from one snapshot to
\* the next.
C26_LedgerInvariants == []LedgerBalanced /\ [][DayStep => LedgerGrows]_vars

\* a run with a daily buy, a zone buy and then a sell-all: two Positions
\* kept, both closed, and realized cash in the last snapshot
C26_Witness ==
    /\ sim.pc = "returned"
    /\ sim.daily_buy_count = 1 /\ sim.zone_buy_count = 1 /\ sim.sell_count = 1
    /\ Len(sim.position_history) = 2
    /\ \A k \in 1..2 : sim.position_history[k].sell_date # None
    /\ sim.portfolio_history[sim.n].cash > 0

\* the shares of the Positions still open
OpenShares(s) ==
    Sum([k \in 1..Len(s.position_history) |->
            IF s.position_history[k].sell_date = None THEN s.position_history[k].shares ELSE 0])

\* the shares held beyond those of the open Positions
DividendSharesHeld(s) == s.total_shares - OpenShares(s)

\* over a day, the shares held beyond the open Positions are the
\* dividend-funded shares acquired since the last sell-all: a sell-all
\* leaves none, and a day's dividend shares are added to them
HoldingsStep ==
    DividendSharesHeld(sim') =
        (IF SoldToday THEN 0 ELSE DividendSharesHeld(sim))
            + (sim'.dividend_shares_bought - sim.dividend_shares_bought)

HoldingsArmed ==
    SimRunning =>
        /\ DividendSharesHeld(sim) >= 0
        /\ sim.position_history = << >> => DividendSharesHeld(sim) = 0
        /\ (\E k \in 1..Len(sim.position_history) : sim.position_history[k].sell_date = None)
              => sim.total_shares > 0
        /\ sim.total_shares = 0 =>
              \A k \in 1..Len(sim.position_history) :
                  sim.position_history[k].sell_date # None

\* C27: at the end of every simulated day the share balance equals the sum
\* of shares over all still-open Positions plus the dividend-funded shares
\* acquired since the last sell-all; hence whenever a Position is open the
\* share balance is positive, and no Position with a null sell_date exists
\* while the share balance is zero.
C27_SharesMatchOpenPositions == []HoldingsArmed /\ [][DayStep => HoldingsStep]_vars

\* the day after the quarterly dividend was reinvested with Positions open:
\* the balance exceeds the open Positions' shares by the dividend shares
C27_Witness ==
    /\ SimRunning
    /\ Len(sim.stock_data) = DividendPeriod + 1
    /\ sim.sell_count = 0
    /\ sim.dividend_shares_bought > 0
    /\ OpenShares(sim) > 0
    /\ sim.total_shares = OpenShares(sim) + sim.dividend_shares_bought

\* the band levels of the zone-buy events the detector emits for day i
EventLevels(i) ==
    { level \in 1..NumBands : CrossesLowerBand(sim, sim.stock_data, i, level) }

\* the days simulated so far that have at least one zone-buy event
EventDays == { i \in 1..(Len(sim.stock_data) - 1) : EventLevels(i) # {} }

\* C28: when the detector emits zone-buy events for several band levels on
\* the same day, the simulator makes exactly one 5x purchase on that day,
\* never one per event, and the Position's buy_level is the highest-numbered
\* level among the day's events; zone_buy_count equals the number of
\* distinct days with at least one buy event.
C28_OneZoneBuyPerDay ==
    SimRunning =>
        /\ \A i \in EventDays :
              LET buys == SelectSeq(sim.trades, LAMBDA t : t.date = i /\ t.type # "SELL")
                  positions == SelectSeq(sim.position_history, LAMBDA pos : pos.buy_date = i)
                  highest == CHOOSE level \in EventLevels(i) :
                                 \A other \in EventLevels(i) : level >= other
              IN  /\ Len(buys) = 1
                  /\ buys[1].type = "BUY 5X"
                  /\ buys[1].amount = ZoneMultiplier * sim.daily_dca_amount
                  /\ buys[1].level = highest
                  /\ Len(positions) = 1
                  /\ positions[1].buy_type = "5X Zone"
                  /\ positions[1].buy_level = highest
        /\ sim.zone_buy_count = Cardinality(EventDays)

\* a day whose events are of levels 1 and 2, with its single purchase
\* recorded at level 2
C28_Witness ==
    /\ SimRunning
    /\ \E i \in EventDays :
          /\ EventLevels(i) = {1, 2}
          /\ \E k \in 1..Len(sim.position_history) :
                /\ sim.position_history[k].buy_date = i
                /\ sim.position_history[k].buy_level = 2
    /\ sim.zone_buy_count = 1

\* the sign of "(bands[0][1][-1] - current_price) / current_price * 100", the
\* rise to Take Profit Zone 1 the WAIT (HOLD) recommendation reports: the
\* numerator, the price being positive
RiseToFirstTpZone(a) == LastUpper(a, 1) - a.current_price

\* C29: whenever analyze_market_position returns WAIT (HOLD), the current
\* price is above the baseline and at or below the band-1 upper value at the
\* last time step (the price is "below TP zones"), so the reported distance
\* to Take Profit Zone 1 is non-negative, for every active-zone subset.
C29_HoldIsBelowTpZones ==
    (Classified /\ page.out.signal = "WAIT (HOLD)") =>
        /\ page.current_price > page.current_regression
        /\ page.current_price <= LastUpper(page, 1)
        /\ RiseToFirstTpZone(page) >= 0

\* C30: whenever the classifier detects a buy zone, currentZoneLevel is 1 and
\* nextZoneLevel is none: nextZoneLevel is only ever set together with a sell
\* zone, so the BUY sub-cases that name a next (deeper) buy zone are never
\* selected.
C30_BuyZoneIsLevelOne ==
    Classified =>
        /\ page.out.zone_type = Some("buy") =>
              /\ page.out.current_zone_level = Some(1)
              /\ page.out.next_zone_level = None
        /\ page.out.next_zone_level # None => page.out.zone_type = Some("sell")
        /\ page.out.price_action_context # "may drop to next zone"

\* a falling price below the lower value of band 2, reported as BUY NOW in
\* buy zone 1 with the sub-case that names no next zone
C30_Witness ==
    /\ Classified
    /\ page.band_step > 0
    /\ page.current_price < LastLower(page, 2)
    /\ page.out.signal = "BUY NOW"
    /\ page.out.current_zone_level = Some(1)
    /\ page.out.is_rejecting
    /\ page.out.price_action_context = "declining"

====
